---- MODULE Spec2Model ----
(***************************************************************************)
(* Verification model of the public-comment pipeline:                      *)
(*   - compute_status        (standardize: lifecycle status of a record)   *)
(*   - parse_dates_from_text (blm_scrape: comment-window extraction)       *)
(*   - _scrape_project_from_texts (blm_scrape: per-project record builder) *)
(*   - looks_like_3857, merc3857_to_wgs84, map_rows_to_final, to_geojson,  *)
(*     main (standardize: the unified table and its point export)          *)
(*   - normalize_unit_text, compute_centroids_csv (enrich_with_district_   *)
(*     geoms: unit names and centroids of matched districts)               *)
(*   - main (build_map_assets: the web map's data file)                    *)
(*   - fetch_all_participation_text_browser (blm_scrape: the tab texts)    *)
(*   - extract_date_range (usfs_sopa_scrape: dates of a project notice)    *)
(*   - load_ranger_districts (enrich_with_district_geoms: paged download)  *)
(* Each function is exercised by its own specification over bounded        *)
(* inputs; SpecExtractors runs the two date extractors side by side and    *)
(* SpecPipeline carries a BLM record from the builder to the unifier.      *)
(***************************************************************************)
EXTENDS Integers, Sequences, FiniteSets, TLC

VARIABLES
    pc,              \* "ready" before the function under study ran, "done" after
    cs_start,        \* compute_status: the start argument
    cs_end,          \* compute_status: the end argument
    today,           \* compute_status: the reference date (a day number)
    comment_status,  \* compute_status: the returned status
    text,            \* parse_dates_from_text: the input text (a token sequence)
    current_year,    \* parse_dates_from_text: datetime.now().year
    window,          \* parse_dates_from_text: the returned (start, end) pair
    tab_texts,       \* _scrape_project_from_texts: tab -> text, "" or None
    record,          \* _scrape_project_from_texts: the ScrapeResult built
    coord_in,        \* standardize: the source and (lon_str, lat_str) of one row
    coord_out,       \* standardize: looks_like_3857, merc3857_to_wgs84 and the
                     \* rows of map_rows_to_final for that row
    tables,          \* standardize.main: the input tables, in argument order
    all_rows,        \* standardize.main: all_rows
    geojson,         \* standardize.main: the result of to_geojson(all_rows)
    unit_in,         \* normalize_unit_text: the unit text
    cleaned,         \* normalize_unit_text: the candidates returned
    csv_rows,        \* compute_centroids_csv: the rows of the input CSV
    districts,       \* compute_centroids_csv: districts_gdf
    out_df,          \* compute_centroids_csv: the rows returned
    in_file,         \* build_map_assets.main: the content of the input file
    out_file,        \* build_map_assets.main: the output file
    site,            \* fetch_all_participation_text_browser: what each tab's
                     \* page does when it is visited
    visited,         \* fetch_all_participation_text_browser: the tabs visited
    out_tabs,        \* fetch_all_participation_text_browser: the dict out
    usfs_text,       \* extract_date_range: the text
    usfs_today,      \* extract_date_range: datetime.today().date()
    usfs_dates,      \* extract_date_range: the tuple returned
    service,         \* load_ranger_districts: the features and the page size
                     \* of the district service
    offset,          \* load_ranger_districts: resultOffset of the next query
    chunks,          \* load_ranger_districts: the pages appended so far
    gdf_all          \* load_ranger_districts: the table returned

statusVars == <<cs_start, cs_end, today, comment_status>>
datesVars == <<text, window>>
buildVars == <<tab_texts, record>>
coordVars == <<coord_in, coord_out>>
unifyVars == <<tables, all_rows, geojson>>
unitVars == <<unit_in, cleaned>>
enrichVars == <<csv_rows, districts, out_df>>
assetVars == <<in_file, out_file>>
fetchVars == <<site, visited, out_tabs>>
usfsVars == <<usfs_text, usfs_today, usfs_dates>>
loadVars == <<service, offset, chunks, gdf_all>>

vars == <<pc, cs_start, cs_end, today, comment_status, text, current_year,
          window, tab_texts, record, coord_in, coord_out, tables, all_rows,
          geojson, unit_in, cleaned, csv_rows, districts, out_df, in_file,
          out_file, site, visited, out_tabs, usfs_text, usfs_today,
          usfs_dates, service, offset, chunks, gdf_all>>

(***************************************************************************)
(* Model bounds.                                                           *)
(***************************************************************************)
MaxDay == 65
MaxTokens == 6

(***************************************************************************)
(* Values shared by the three functions.                                   *)
(***************************************************************************)
\* Python's None, for an optional date.
None == <<>>

\* A sequence as the set of its elements.
Range(s) == {s[i] : i \in 1..Len(s)}

(***************************************************************************)
(* compute_status(start, end, today)                                       *)
(*                                                                         *)
(* An argument is None, a string that does not parse as a date, or an ISO  *)
(* date string; a date is modelled by its day number.                      *)
(***************************************************************************)
STATUS_WINDOW_DAYS == 30

NoDateArg == [kind |-> "none", day |-> 0]
BadDateArg == [kind |-> "unparseable", day |-> 0]
IsoDateArg(n) == [kind |-> "iso", day |-> n]

Days == 0..MaxDay
DateArgs == {NoDateArg, BadDateArg} \cup {IsoDateArg(n) : n \in Days}
\* Reference dates that leave more than a status window on both sides.
Todays == (STATUS_WINDOW_DAYS + 2)..(MaxDay - STATUS_WINDOW_DAYS - 2)

\* Parsing an argument: the set holding its day, empty when absent or unparseable.
ParsedDay(arg) == IF arg.kind = "iso" THEN {arg.day} ELSE {}

ActiveCond(s, e, t) ==
    \E sd \in ParsedDay(s), ed \in ParsedDay(e) : sd <= t /\ t <= ed

UpcomingCond(s, e, t) ==
    \E sd \in ParsedDay(s) : t < sd /\ sd <= t + STATUS_WINDOW_DAYS

ClosedCond(s, e, t) ==
    \E ed \in ParsedDay(e) : ed < t /\ ed > t - STATUS_WINDOW_DAYS

\* Mutant of compute_status: the window's first day is not counted as active.
compute_status_strict(s, e, t) ==
    IF \E sd \in ParsedDay(s), ed \in ParsedDay(e) : sd < t /\ t <= ed THEN "active"
    ELSE IF UpcomingCond(s, e, t) THEN "upcoming"
    ELSE IF ClosedCond(s, e, t) THEN "closed"
    ELSE "unknown"

\* Mutant of compute_status: a start 30 days ahead is no longer upcoming.
compute_status_short(s, e, t) ==
    IF ActiveCond(s, e, t) THEN "active"
    ELSE IF \E sd \in ParsedDay(s) : t < sd /\ sd < t + STATUS_WINDOW_DAYS
         THEN "upcoming"
    ELSE IF ClosedCond(s, e, t) THEN "closed"
    ELSE "unknown"

\* Mutant of compute_status: an end exactly 30 days back still counts as closed.
compute_status_long(s, e, t) ==
    IF ActiveCond(s, e, t) THEN "active"
    ELSE IF UpcomingCond(s, e, t) THEN "upcoming"
    ELSE IF \E ed \in ParsedDay(e) : ed < t /\ ed >= t - STATUS_WINDOW_DAYS
         THEN "closed"
    ELSE "unknown"

\* Mutant of compute_status: an unparseable start makes the record unknown.
compute_status_bad(s, e, t) ==
    IF s.kind = "unparseable" THEN "unknown"
    ELSE IF ActiveCond(s, e, t) THEN "active"
    ELSE IF UpcomingCond(s, e, t) THEN "upcoming"
    ELSE IF ClosedCond(s, e, t) THEN "closed"
    ELSE "unknown"

\* Mutant of compute_status: a record is active up to its end whatever its
\* start.
compute_status_open_end(s, e, t) ==
    IF \E ed \in ParsedDay(e) : t <= ed THEN "active"
    ELSE IF UpcomingCond(s, e, t) THEN "upcoming"
    ELSE IF ClosedCond(s, e, t) THEN "closed"
    ELSE "unknown"

\* The status rules, evaluated in the order they are listed.
compute_status(s, e, t) ==
    IF ActiveCond(s, e, t) THEN "active"
    ELSE IF UpcomingCond(s, e, t) THEN "upcoming"
    ELSE IF ClosedCond(s, e, t) THEN "closed"
    ELSE "unknown"

(***************************************************************************)
(* parse_dates_from_text(text)                                             *)
(*                                                                         *)
(* A text is a sequence of tokens.  A token is a word or phrase of the     *)
(* vocabulary below, the sentence-ending ".", or a month-name date such as *)
(* "Dec 31, 2028".  Rendered as a string, "." is attached to the token     *)
(* before it and every other token is preceded by one space.               *)
(***************************************************************************)
MIN_YEAR == 2000
MAX_YEAR_AHEAD == 2

Word(w) == [w |-> w, y |-> 0, m |-> 0, d |-> 0]
DateTok(y, m, d) == [w |-> "date", y |-> y, m |-> m, d |-> d]

COMMENTS == Word("comments")
DUE_BY == Word("due by")
ARE_DUE == Word("are due")
POSTMARKED_BY == Word("must be postmarked by")
WORD_BY == Word("by")
SCOPING == Word("scoping")
THROUGH == Word("through")
DOT == Word(".")

\* The words matched by KW, by the closing-word pattern, and by the phrase
\* alternatives of COMMENT_DUE_RE after "comments".
KW_WORDS == {"comments", "scoping", "due by", "are due"}
CLOSING_WORDS == {"due by", "are due", "must be postmarked by", "by"}
DUE_PHRASES == {"are due", "due by", "must be postmarked by"}

\* Dates on both sides of the year bounds: "Dec 31, 1999", "Jan 1, 2000",
\* "Dec 31, 2028" (in bounds when the current year is 2026, out when 2025).
DateTokens == {DateTok(1999, 12, 31), DateTok(2000, 1, 1), DateTok(2028, 12, 31)}
Tokens == {COMMENTS, DUE_BY, DOT} \cup DateTokens
CurrentYears == {2025, 2026}

Texts == UNION {[1..n -> Tokens] : n \in 0..MaxTokens}

IsDate(t) == t.w = "date"

\* Number of characters of a token.
TokLen(t) ==
    CASE t.w = "comments" -> 8
      [] t.w = "due by" -> 6
      [] t.w = "are due" -> 7
      [] t.w = "must be postmarked by" -> 21
      [] t.w = "by" -> 2
      [] t.w = "scoping" -> 7
      [] t.w = "through" -> 7
      [] t.w = "." -> 1
      \* "Mon D, YYYY": three letters, a space, the day, ", " and the year.
      [] t.w = "date" -> 3 + 1 + (IF t.d >= 10 THEN 2 ELSE 1) + 2 + 4

\* len(c) of a clause: its tokens and the spaces between them.
ClauseLen(c) ==
    LET F[i \in 0..Len(c)] ==
            IF i = 0 THEN 0
            ELSE F[i - 1] + TokLen(c[i])
                          + (IF i > 1 /\ c[i] # DOT THEN 1 ELSE 0)
    IN  F[Len(c)]

\* re.split(r"(?<=[\.\!\?])\s+|\n+", text): a clause ends after a "." that is
\* followed by white space, that is, by a token other than ".".
RECURSIVE Split(_, _)
Split(rest, cur) ==
    IF rest = <<>> THEN (IF cur = <<>> THEN <<>> ELSE <<cur>>)
    ELSE LET cur2 == Append(cur, Head(rest))
         IN  IF Head(rest) = DOT /\ Len(rest) > 1 /\ rest[2] # DOT
             THEN <<cur2>> \o Split(Tail(rest), <<>>)
             ELSE Split(Tail(rest), cur2)

Clauses(txt) == Split(txt, <<>>)

\* Mutant of KW: every clause counts as relevant.
KW_any(c) == TRUE

\* KW.search(c): the participation keywords ("comment", "due", ...).
KW(c) == \E i \in 1..Len(c) : c[i].w \in KW_WORDS

\* Mutant of ClosingWord: every clause counts as closing-style.
ClosingWord_any(c) == TRUE

\* re.search(r"(due|close|deadline|by)", c): the closing-style words.
ClosingWord(c) == \E i \in 1..Len(c) : c[i].w \in CLOSING_WORDS

\* dparse.parse of a month-name date.
Parse(t) == [year |-> t.y, month |-> t.m, day |-> t.d]

\* d.date().isoformat(), as the triple of its fields.
IsoFormat(dt) == <<dt.year, dt.month, dt.day>>

\* Mutant of year_ok: one more year ahead is accepted.
year_ok_wide(dt, cy) == MIN_YEAR <= dt.year /\ dt.year <= cy + MAX_YEAR_AHEAD + 1

year_ok(dt, cy) == MIN_YEAR <= dt.year /\ dt.year <= cy + MAX_YEAR_AHEAD

\* Order of datetime values.
DateLE(a, b) ==
    \/ a.year < b.year
    \/ a.year = b.year /\ a.month < b.month
    \/ a.year = b.year /\ a.month = b.month /\ a.day <= b.day

\* COMMENT_DUE_RE.search(c): the positions where "comments" followed by one
\* of the phrases and directly by a date starts; search returns the leftmost.
DueMatches(c) ==
    {i \in 1..(Len(c) - 2) :
        c[i] = COMMENTS /\ c[i + 1].w \in DUE_PHRASES /\ IsDate(c[i + 2])}

DueDate(c) ==
    LET i == CHOOSE j \in DueMatches(c) : \A k \in DueMatches(c) : j <= k
    IN  Parse(c[i + 2])

\* The clause returns from the explicit "comments due by" loop.
ExplicitHit(c, cy) == DueMatches(c) # {} /\ year_ok(DueDate(c), cy)

\* extract_dates(s): the dates of DATE_ANY_RE.finditer(s), in text order,
\* that pass year_ok.
RECURSIVE extract_dates(_, _)
extract_dates(c, cy) ==
    IF c = <<>> THEN <<>>
    ELSE LET rest == extract_dates(Tail(c), cy)
         IN  IF IsDate(Head(c)) /\ year_ok(Parse(Head(c)), cy)
             THEN <<Parse(Head(c))>> \o rest
             ELSE rest

\* ds.sort(): insertion into a sorted list.
RECURSIVE Insert(_, _)
Insert(x, sorted) ==
    IF sorted = <<>> THEN <<x>>
    ELSE IF DateLE(x, Head(sorted)) THEN <<x>> \o sorted
    ELSE <<Head(sorted)>> \o Insert(x, Tail(sorted))

\* Mutant of Sort: the dates stay in text order.
Sort_none(ds) == ds

RECURSIVE Sort(_)
Sort(ds) == IF ds = <<>> THEN <<>> ELSE Insert(Head(ds), Sort(Tail(ds)))

\* The candidate (start, end, len(c)) of one relevant clause, as a sequence
\* of zero or one candidates.
Candidate(c, cy) ==
    LET ds == Sort(extract_dates(c, cy))
    IN  IF Len(ds) >= 2
        THEN <<[s |-> IsoFormat(ds[1]), e |-> IsoFormat(ds[Len(ds)]),
                n |-> ClauseLen(c)]>>
        ELSE IF Len(ds) = 1 /\ ClosingWord(c)
        THEN <<[s |-> None, e |-> IsoFormat(ds[1]), n |-> ClauseLen(c)]>>
        ELSE <<>>

RECURSIVE Candidates(_, _)
Candidates(relevant, cy) ==
    IF relevant = <<>> THEN <<>>
    ELSE Candidate(Head(relevant), cy) \o Candidates(Tail(relevant), cy)

\* Mutant of Shortest: the candidate of the first clause is taken.
Shortest_first(cands) == cands[1]

\* candidates.sort(key=lambda t: t[2]); candidates[0]: the sort is stable, so
\* the first candidate of least clause length.
Shortest(cands) ==
    LET i == CHOOSE j \in 1..Len(cands) :
                 /\ \A k \in 1..Len(cands) : cands[j].n <= cands[k].n
                 /\ \A k \in 1..(j - 1) : cands[k].n > cands[j].n
    IN  cands[i]

\* Mutant of parse_dates_from_text: the explicit phrase is tried clause by
\* clause together with the generic scan, so an earlier clause's range wins.
parse_dates_per_clause(txt, cy) ==
    LET relevant == SelectSeq(Clauses(txt), KW)
        Out(c) == IF ExplicitHit(c, cy)
                  THEN <<[s |-> None, e |-> IsoFormat(DueDate(c)), n |-> 0]>>
                  ELSE Candidate(c, cy)
        F[i \in 0..Len(relevant)] ==
            IF i = 0 THEN <<>> ELSE F[i - 1] \o Out(relevant[i])
        all == F[Len(relevant)]
    IN  IF all = <<>> THEN <<None, None>> ELSE <<all[1].s, all[1].e>>

\* The function: (start, end) of the comment window found in txt.
parse_dates_from_text(txt, cy) ==
    IF txt = <<>> THEN <<None, None>>
    ELSE
    LET relevant == SelectSeq(Clauses(txt), KW)
        hits == {i \in 1..Len(relevant) : ExplicitHit(relevant[i], cy)}
        cands == Candidates(relevant, cy)
    IN  IF hits # {}
        THEN LET i == CHOOSE j \in hits : \A k \in hits : j <= k
             IN  <<None, IsoFormat(DueDate(relevant[i]))>>
        ELSE IF cands = <<>> THEN <<None, None>>
        ELSE <<Shortest(cands).s, Shortest(cands).e>>

(***************************************************************************)
(* _scrape_project_from_texts(project_id, state, tab_texts)                *)
(*                                                                         *)
(* tab_texts maps a tab to its page text; a tab's value is None (absent    *)
(* key or None), the empty string, or a text.                              *)
(***************************************************************************)
PARTICIPATION_PATHS == <<"510", "570", "565">>

\* scrape_confidence, in tenths: 0.8, 0.5 and 0.2.
CONF_DATES == 8
CONF_TEXT == 5
CONF_NOTHING == 2

NoText == [present |-> FALSE, txt |-> <<>>]
TextOf(t) == [present |-> TRUE, txt |-> t]

\* Sample page texts, after the fixtures of the tests: an explicit deadline
\* in the two phrasings, a date range, and a page without dates, each with
\* and without the final full stop.
AUG_20 == DateTok(2025, 8, 20)
SEP_10 == DateTok(2025, 9, 10)
SEP_15 == DateTok(2025, 9, 15)

PageBodies ==
    { <<COMMENTS, ARE_DUE, WORD_BY, SEP_15>>,   \* "Comments are due by Sep 15, 2025"
      <<COMMENTS, DUE_BY, SEP_15>>,             \* "Comments due by Sep 15, 2025"
      <<SCOPING, AUG_20, THROUGH, SEP_10>>,     \* "Scoping Aug 20, 2025 through Sep 10, 2025"
      <<THROUGH>> }                             \* a page without keyword or date

PageTexts == PageBodies \cup {Append(b, DOT) : b \in PageBodies}

TabValues == {NoText, TextOf(<<>>)} \cup {TextOf(t) : t \in PageTexts}

ProjectIds == {"2029163", "2027000"}

\* f"https://eplanning.blm.gov/eplanning-ui/project/{project_id}/{tab}"
ProjectUrl(project_id, tab) == [project |-> project_id, tab |-> tab]

\* " ".join(parts): the parts' tokens, one after the other.
RECURSIVE Join(_)
Join(parts) == IF parts = <<>> THEN <<>> ELSE Head(parts) \o Join(Tail(parts))

\* Mutant of TabLoop: every tab with text replaces primary_url.
RECURSIVE TabLoop_last(_, _)
TabLoop_last(tabs, n) ==
    IF n = 0
    THEN [tab_presence |-> <<>>, primary_tab |-> "", parts |-> <<>>, snippets |-> <<>>]
    ELSE LET prev == TabLoop_last(tabs, n - 1)
             tab == PARTICIPATION_PATHS[n]
             val == tabs[tab]
             presence == Append(prev.tab_presence, <<tab, val.present>>)
         IN  IF ~val.present \/ val.txt = <<>>
             THEN [prev EXCEPT !.tab_presence = presence]
             ELSE [tab_presence |-> presence,
                   primary_tab |-> tab,
                   parts |-> Append(prev.parts, val.txt),
                   snippets |-> Append(prev.snippets, tab)]

\* The loop over PARTICIPATION_PATHS: tab_presence, primary_url and
\* combined_text_parts after the first n tabs.
RECURSIVE TabLoop(_, _)
TabLoop(tabs, n) ==
    IF n = 0
    THEN [tab_presence |-> <<>>, primary_tab |-> "", parts |-> <<>>, snippets |-> <<>>]
    ELSE LET prev == TabLoop(tabs, n - 1)
             tab == PARTICIPATION_PATHS[n]
             val == tabs[tab]
             presence == Append(prev.tab_presence, <<tab, val.present>>)
         IN  IF ~val.present \/ val.txt = <<>>
             THEN [prev EXCEPT !.tab_presence = presence]
             ELSE [tab_presence |-> presence,
                   primary_tab |-> IF prev.primary_tab = "" \/ tab = "510"
                                   THEN tab ELSE prev.primary_tab,
                   parts |-> Append(prev.parts, val.txt),
                   snippets |-> Append(prev.snippets, tab)]

\* Mutant of Confidence: a window needs both bounds to count as found.
Confidence_both(start, end, combined_text) ==
    IF start # None /\ end # None THEN CONF_DATES
    ELSE IF combined_text # <<>> THEN CONF_TEXT
    ELSE CONF_NOTHING

\* confidence = 0.8 if (start or end) else (0.5 if combined_text else 0.2)
Confidence(start, end, combined_text) ==
    IF start # None \/ end # None THEN CONF_DATES
    ELSE IF combined_text # <<>> THEN CONF_TEXT
    ELSE CONF_NOTHING

\* The ScrapeResult built for one project.
scrape_project_from_texts(project_id, state, tabs, cy) ==
    LET loop == TabLoop(tabs, Len(PARTICIPATION_PATHS))
        combined_text == Join(loop.parts)
        dates == parse_dates_from_text(combined_text, cy)
    IN  [project_id |-> <<"BLM-", project_id>>,
         agency |-> "BLM",
         title |-> <<"BLM Project ", project_id>>,
         description |-> combined_text,
         comment_start_date |-> dates[1],
         comment_end_date |-> dates[2],
         source_url |-> IF loop.primary_tab # ""
                        THEN ProjectUrl(project_id, loop.primary_tab)
                        ELSE ProjectUrl(project_id, "510"),
         state |-> state,
         scrape_confidence |-> Confidence(dates[1], dates[2], combined_text),
         notes_tabs |-> loop.tab_presence,
         notes_examples |-> loop.snippets]

(***************************************************************************)
(* standardize: numbers and coordinates                                    *)
(*                                                                         *)
(* A float is held in hundredths: [big |-> 0, n |-> n] is n / 100.  The    *)
(* finite values +5*10^9 and -5*10^9, whose quotient by R_MERC is beyond   *)
(* the range of math.exp, are [big |-> 1] and [big |-> -1].                *)
(***************************************************************************)
Flt(n) == [big |-> 0, n |-> n]
BigFlt(sign) == [big |-> sign, n |-> 0]

\* A CSV cell, read as str with NaN filled by "": blank, a text that is not
\* a number, or the decimal text of a float.
EmptyCell == [kind |-> "empty", big |-> 0, n |-> 0, s |-> ""]
TextCell(s) == [kind |-> "text", big |-> 0, n |-> 0, s |-> s]
NumCell(n) == [kind |-> "num", big |-> 0, n |-> n, s |-> ""]
BigCell(sign) == [kind |-> "num", big |-> sign, n |-> 0, s |-> ""]

\* float(s): the set holding the value, empty when float() raises ValueError.
FloatOf(cell) ==
    IF cell.kind = "num" THEN {[big |-> cell.big, n |-> cell.n]} ELSE {}

\* a <= b and a > b on floats.
FltLE(a, b) ==
    IF a.big # b.big THEN a.big < b.big
    ELSE a.big # 0 \/ a.n <= b.n

FltGT(a, b) == ~FltLE(a, b)

\* abs(a)
FltAbs(a) ==
    [big |-> IF a.big # 0 THEN 1 ELSE 0, n |-> IF a.n < 0 THEN -a.n ELSE a.n]

\* The literals of looks_like_3857 and of the clamps, in hundredths.
LON_LIMIT == 18000
LAT_LIMIT == 9000
MERC_LIMIT == 100000

\* degish = (-180 <= x <= 180) and (-90 <= y <= 90)
Degish(x, y) ==
    /\ FltLE(Flt(-LON_LIMIT), x) /\ FltLE(x, Flt(LON_LIMIT))
    /\ FltLE(Flt(-LAT_LIMIT), y) /\ FltLE(y, Flt(LAT_LIMIT))

\* mercish = (abs(x) > 1000) or (abs(y) > 1000)
Mercish(x, y) ==
    FltGT(FltAbs(x), Flt(MERC_LIMIT)) \/ FltGT(FltAbs(y), Flt(MERC_LIMIT))

looks_like_3857(lon_str, lat_str) ==
    IF FloatOf(lon_str) = {} \/ FloatOf(lat_str) = {} THEN FALSE
    ELSE LET x == CHOOSE v \in FloatOf(lon_str) : TRUE
             y == CHOOSE v \in FloatOf(lat_str) : TRUE
         IN  ~Degish(x, y) /\ Mercish(x, y)

\* Division rounding toward zero.
TDiv(a, b) == IF a >= 0 THEN a \div b ELSE -((-a) \div b)

\* R_MERC * pi / 180, the meters of one degree, rounded to the meter.
DEGREE_METERS == 111319

\* 5*10^9 / R_MERC * (180 / pi) in hundredths of a degree.
BIG_LON == 4491576

\* (2 atan(exp(y / R_MERC)) - pi / 2) * (180 / pi) in hundredths of a
\* degree, for y = 0, 500 km, 1000 km, ...; values between two entries are
\* interpolated, which is exact to a few hundredths of a degree.
LAT_STEP == 50000000
LAT_TABLE ==
    << 0, 449, 895, 1335, 1768, 2190, 2601, 2997, 3379, 3744, 4092, 4422,
       4735, 5031, 5309, 5571, 5816, 6045, 6259, 6459, 6645, 6818, 6979,
       7128, 7267, 7396, 7516, 7626, 7729, 7824, 7912, 7994, 8069, 8139,
       8204, 8264, 8319, 8370, 8418, 8462, 8502, 8540, 8574, 8606, 8636 >>

LatOfMeters(n) ==
    LET a == IF n < 0 THEN -n ELSE n
        k == a \div LAT_STEP
        r == a % LAT_STEP
        v == LAT_TABLE[k + 1]
             + ((LAT_TABLE[k + 2] - LAT_TABLE[k + 1]) * (r \div 1000))
                   \div (LAT_STEP \div 1000)
    IN  IF n < 0 THEN -v ELSE v

\* max(min(v, hi), lo)
Clamp(v, lo, hi) == IF v > hi THEN hi ELSE IF v < lo THEN lo ELSE v

\* merc3857_to_wgs84(x, y): math.exp raises OverflowError when y / R_MERC
\* is beyond its range; exp of a large negative quotient is 0.0.
merc3857_to_wgs84(x, y) ==
    IF y.big = 1
    THEN [raised |-> TRUE, lon |-> Flt(0), lat |-> Flt(0)]
    ELSE LET lon == IF x.big # 0 THEN x.big * BIG_LON
                    ELSE TDiv(x.n, DEGREE_METERS)
             lat == IF y.big = -1 THEN -LAT_LIMIT ELSE LatOfMeters(y.n)
         IN  [raised |-> FALSE,
              lon |-> Flt(Clamp(lon, -LON_LIMIT, LON_LIMIT)),
              lat |-> Flt(Clamp(lat, -LAT_LIMIT, LAT_LIMIT))]

(***************************************************************************)
(* standardize: input tables                                               *)
(*                                                                         *)
(* A table is its column names and its rows; a row maps every column to a  *)
(* cell.  A text cell is the string s followed by n full stops; a date     *)
(* cell holds the date n = yyyymmdd written in the format s.               *)
(***************************************************************************)
MaxRows == 2

DottedCell(s, k) == [kind |-> "text", big |-> 0, n |-> k, s |-> s]
DateCell(ymd, fmt) == [kind |-> "date", big |-> 0, n |-> ymd, s |-> fmt]

\* The columns written by blm_scrape.main (the fields of ScrapeResult).
BLM_SCRAPE_COLUMNS ==
    {"project_id", "agency", "title", "description", "office_or_unit",
     "comment_start_date", "comment_end_date", "source_url", "state",
     "geometry_type", "geometry", "geom_source", "scrape_confidence",
     "last_checked_utc", "notes_tabs", "notes_examples"}

\* The same with coordinate columns added.
BLM_SCRAPE_GEO_COLUMNS == BLM_SCRAPE_COLUMNS \cup {"longitude", "latitude"}

\* A BLM table as detect_source describes it: project_id, lat/lon and url.
BLM_GEO_COLUMNS ==
    {"project_id", "state", "latitude", "longitude", "url", "description",
     "comment_start", "comment_end"}

\* A BLM table under the other column names map_rows_to_final accepts.
BLM_GIS_COLUMNS ==
    {"ProjectID", "Summary", "PublicCommentStartDate", "PublicCommentEndDate",
     "X", "Y", "url"}

\* The columns written by usfs_sopa_scrape.save_to_csv, with the
\* matched_units column of the enrichment.
USFS_COLUMNS ==
    {"project_id", "name", "state", "latitude", "longitude", "start_date",
     "comment_start", "comment_end", "expected_comment_start",
     "expected_comment_end", "confidence", "notes", "url", "matched_units"}

Layouts ==
    {BLM_SCRAPE_COLUMNS, BLM_SCRAPE_GEO_COLUMNS, BLM_GEO_COLUMNS,
     BLM_GIS_COLUMNS, USFS_COLUMNS}

BLM_URL == TextCell("https://eplanning.blm.gov/eplanning-ui/project/2029163/510")
USFS_URL == TextCell("https://www.fs.usda.gov/sopa/forest-level.php?110215")

\* The row of a table with the given columns that holds the given data.
MakeRow(columns, data) ==
    [c \in columns |->
        CASE c \in {"project_id", "ProjectID"} -> data.id
          [] c \in {"name", "title"} -> data.name
          [] c \in {"description", "Summary", "notes"} -> data.notes
          [] c \in {"comment_start", "comment_start_date", "start_date",
                    "PublicCommentStartDate"} -> data.start
          [] c \in {"comment_end", "comment_end_date",
                    "PublicCommentEndDate"} -> data.end
          [] c \in {"longitude", "X"} -> data.lon
          [] c \in {"latitude", "Y"} -> data.lat
          [] c \in {"url", "source_url"} -> data.url
          [] c = "state" -> TextCell("CO")
          [] OTHER -> EmptyCell]

\* Coordinate pairs of a row: none, degrees, Web Mercator meters, a pair
\* in neither range, and pairs with a text that is not a number.
RowCoords ==
    { <<EmptyCell, EmptyCell>>,
      <<NumCell(-10490), NumCell(3970)>>,
      <<NumCell(-1168600000), NumCell(480800000)>>,
      <<NumCell(50000), NumCell(50000)>>,
      <<TextCell("n/a"), NumCell(3970)>>,
      <<NumCell(-10490), TextCell("39.7N")>> }

\* The other cells of a row: all filled, or only the identifier.
RowTexts ==
    { [id |-> TextCell("111"), name |-> DottedCell("Project A", 1),
       notes |-> TextCell("Desc A"),
       start |-> DateCell(20250810, "iso"), end |-> DateCell(20250905, "us")],
      [id |-> TextCell("222"), name |-> EmptyCell, notes |-> EmptyCell,
       start |-> EmptyCell, end |-> TextCell("TBD")] }

RowData(url) ==
    { [id |-> t.id, name |-> t.name, notes |-> t.notes, start |-> t.start,
       end |-> t.end, lon |-> c[1], lat |-> c[2], url |-> url] :
          t \in RowTexts, c \in RowCoords }

\* The tables with the given columns, of up to n rows whose URLs are url.
TablesOf(columns, url, n) ==
    { [columns |-> columns,
       rows |-> [i \in 1..Len(d) |-> MakeRow(columns, d[i])]] :
          d \in UNION {[1..j -> RowData(url)] : j \in 0..n} }

(***************************************************************************)
(* standardize: to_iso, first_nonempty, clean_text, detect_source,         *)
(* map_rows_to_final, to_geojson and main                                  *)
(***************************************************************************)
\* to_iso(d): "" for a blank or unparseable value, else the ISO date.
to_iso(d) == IF d.kind = "date" THEN DateCell(d.n, "iso") ELSE EmptyCell

\* first_nonempty(row, candidates): the first candidate column the row has
\* with a non-blank cell, else "".
first_nonempty(row, candidates) ==
    LET hits == {i \in 1..Len(candidates) :
                    /\ candidates[i] \in DOMAIN row
                    /\ row[candidates[i]].kind # "empty"}
    IN  IF hits = {} THEN EmptyCell
        ELSE row[candidates[CHOOSE i \in hits : \A j \in hits : i <= j]]

\* clean_text(s): the trailing full stops removed.
clean_text(s) == IF s.kind = "text" THEN [s EXCEPT !.n = 0] ELSE s

\* c.lower() of a column name.
Lower(c) ==
    CASE c = "ProjectID" -> "projectid"
      [] c = "Summary" -> "summary"
      [] c = "PublicCommentStartDate" -> "publiccommentstartdate"
      [] c = "PublicCommentEndDate" -> "publiccommentenddate"
      [] c = "X" -> "x"
      [] c = "Y" -> "y"
      [] OTHER -> c

\* "eplanning.blm.gov" in u or "blm.gov" in u
IsBlmUrl(cell) == cell = BLM_URL

\* detect_source(df): "BLM", "USFS", or "AttributeError" when the table has
\* project_id, state, latitude and longitude but no url column, where
\* df.get("url", "") is the str "" and has no astype.
detect_source(df) ==
    LET cols == {Lower(c) : c \in df.columns}
        head5 == {i \in 1..Len(df.rows) : i <= 5}
        byContent ==
            IF "unit" \in cols \/ {"comment_start", "comment_end"} \cap cols # {}
            THEN "USFS"
            ELSE IF df.rows = <<>> THEN "USFS"
            ELSE LET sample == df.rows[1]
                     u == IF "url" \in DOMAIN sample /\ sample["url"].kind # "empty"
                          THEN sample["url"]
                          ELSE IF "source_url" \in DOMAIN sample
                          THEN sample["source_url"]
                          ELSE EmptyCell
                 IN  IF IsBlmUrl(u) THEN "BLM" ELSE "USFS"
    IN  IF {"project_id", "state", "latitude", "longitude"} \subseteq cols
        THEN IF "url" \notin df.columns THEN "AttributeError"
             ELSE IF \E i \in head5 : IsBlmUrl(df.rows[i]["url"]) THEN "BLM"
             ELSE byContent
        ELSE byContent

\* Mutant of BlmCoords: a latitude that does not parse is taken as 0.0.
BlmCoords_zero(lon_raw, lat_raw) ==
    IF lon_raw.kind = "empty" \/ lat_raw.kind = "empty"
    THEN [lon |-> {}, lat |-> {}]
    ELSE IF looks_like_3857(lon_raw, lat_raw)
    THEN LET c == merc3857_to_wgs84(CHOOSE v \in FloatOf(lon_raw) : TRUE,
                                    CHOOSE v \in FloatOf(lat_raw) : TRUE)
         IN  IF c.raised THEN [lon |-> {}, lat |-> {}]
             ELSE [lon |-> {c.lon}, lat |-> {c.lat}]
    ELSE IF FloatOf(lon_raw) = {} THEN [lon |-> {}, lat |-> {}]
    ELSE [lon |-> FloatOf(lon_raw),
          lat |-> IF FloatOf(lat_raw) = {} THEN {Flt(0)} ELSE FloatOf(lat_raw)]

\* The coordinates of a BLM row, each a set holding the float or empty for
\* None: meters are converted, any other pair is taken as it is.
BlmCoords(lon_raw, lat_raw) ==
    IF lon_raw.kind = "empty" \/ lat_raw.kind = "empty"
    THEN [lon |-> {}, lat |-> {}]
    ELSE IF looks_like_3857(lon_raw, lat_raw)
    THEN \* lon, lat = merc3857_to_wgs84(float(lon_raw), float(lat_raw)),
         \* any exception leaving both None
         IF FloatOf(lon_raw) = {} \/ FloatOf(lat_raw) = {}
         THEN [lon |-> {}, lat |-> {}]
         ELSE LET x == CHOOSE v \in FloatOf(lon_raw) : TRUE
                  y == CHOOSE v \in FloatOf(lat_raw) : TRUE
                  c == merc3857_to_wgs84(x, y)
              IN  IF c.raised THEN [lon |-> {}, lat |-> {}]
                  ELSE [lon |-> {c.lon}, lat |-> {c.lat}]
    ELSE \* lon = float(lon_raw); lat = float(lat_raw), inside one try
         IF FloatOf(lon_raw) = {} THEN [lon |-> {}, lat |-> {}]
         ELSE [lon |-> FloatOf(lon_raw), lat |-> FloatOf(lat_raw)]

\* The coordinates of a USFS row: the pair is taken as it is.
UsfsCoords(lon_raw, lat_raw) ==
    IF lon_raw.kind = "empty" \/ lat_raw.kind = "empty"
    THEN [lon |-> {}, lat |-> {}]
    ELSE IF FloatOf(lon_raw) = {} THEN [lon |-> {}, lat |-> {}]
    ELSE [lon |-> FloatOf(lon_raw), lat |-> FloatOf(lat_raw)]

UNNAMED == TextCell("Unnamed project")

\* The rows one input row contributes: none when a coordinate is None.
MapRow(r, source) ==
    LET blm == source = "BLM"
        c == IF blm
             THEN BlmCoords(first_nonempty(r, <<"longitude", "Longitude", "X">>),
                            first_nonempty(r, <<"latitude", "Latitude", "Y">>))
             ELSE UsfsCoords(first_nonempty(r, <<"longitude">>),
                             first_nonempty(r, <<"latitude">>))
        name == first_nonempty(r, <<"name", "title">>)
    IN  IF c.lon = {} \/ c.lat = {} THEN <<>>
        ELSE << [project_name |->
                     IF blm THEN first_nonempty(r, <<"project_id", "ProjectID", "ID">>)
                     ELSE IF clean_text(name).kind = "empty" THEN UNNAMED
                     ELSE clean_text(name),
                 source |-> source,
                 start_date |->
                     IF blm
                     THEN to_iso(first_nonempty(r, <<"comment_start", "start_date",
                                                     "PublicCommentStartDate">>))
                     ELSE to_iso(first_nonempty(r, <<"comment_start", "start_date",
                                                     "comment_start_date",
                                                     "expected_comment_start">>)),
                 end_date |->
                     IF blm
                     THEN to_iso(first_nonempty(r, <<"comment_end",
                                                     "PublicCommentEndDate">>))
                     ELSE to_iso(first_nonempty(r, <<"comment_end", "comment_end_date",
                                                     "expected_comment_end">>)),
                 notes |->
                     IF blm
                     THEN first_nonempty(r, <<"description", "Summary",
                                              "ProjectDescription", "ProjectSummary">>)
                     ELSE first_nonempty(r, <<"location_desc", "notes", "description">>),
                 longitude |-> c.lon,
                 latitude |-> c.lat] >>

\* The loop of map_rows_to_final over the first n rows.
RECURSIVE MapRows(_, _, _)
MapRows(rows, source, n) ==
    IF n = 0 THEN <<>>
    ELSE MapRows(rows, source, n - 1) \o MapRow(rows[n], source)

\* map_rows_to_final(df, source_hint): the rows, or the exception of
\* detect_source; source_hint is "" for None.
map_rows_to_final(df, source_hint) ==
    LET source == IF source_hint # "" THEN source_hint ELSE detect_source(df)
    IN  IF source = "AttributeError" THEN [raised |-> TRUE, rows |-> <<>>]
        ELSE [raised |-> FALSE, rows |-> MapRows(df.rows, source, Len(df.rows))]

\* to_geojson(min_rows): one Point feature per row; float(r["longitude"])
\* raises TypeError when the value is None.
Feature(r) ==
    [type |-> "Feature",
     geometry |-> [type |-> "Point",
                   coordinates |-> <<CHOOSE v \in r.longitude : TRUE,
                                     CHOOSE v \in r.latitude : TRUE>>],
     properties |-> [project_name |-> r.project_name, source |-> r.source,
                     start_date |-> r.start_date, end_date |-> r.end_date,
                     notes |-> r.notes]]

to_geojson(min_rows) ==
    IF \E i \in 1..Len(min_rows) :
           min_rows[i].longitude = {} \/ min_rows[i].latitude = {}
    THEN [raised |-> TRUE, type |-> "", features |-> <<>>]
    ELSE [raised |-> FALSE, type |-> "FeatureCollection",
          features |-> [i \in 1..Len(min_rows) |-> Feature(min_rows[i])]]

\* The loop of main over the first n inputs: all_rows, or the exception.
RECURSIVE MainRows(_, _)
MainRows(inputs, n) ==
    IF n = 0 THEN [raised |-> FALSE, rows |-> <<>>]
    ELSE LET prev == MainRows(inputs, n - 1)
             cur == map_rows_to_final(inputs[n], "")
         IN  IF prev.raised \/ cur.raised THEN [raised |-> TRUE, rows |-> <<>>]
             ELSE [raised |-> FALSE, rows |-> prev.rows \o cur.rows]

(***************************************************************************)
(* enrich_with_district_geoms: normalize_unit_text(unit)                   *)
(*                                                                         *)
(* A unit text is a sequence of tokens: words (w as written, lc in lower   *)
(* case), ",", "/" and ".".  White space is what separates two words, so a *)
(* segment of white space only has no token.                               *)
(***************************************************************************)
MaxUnitTokens == 5

UnitTok(w, lc) == [w |-> w, lc |-> lc]

LEADVILLE == UnitTok("Leadville", "leadville")
BEARS_EARS == UnitTok("Bears Ears", "bears ears")
RD == UnitTok("RD", "rd")
RANGER == UnitTok("Ranger", "ranger")
DISTRICT == UnitTok("District", "district")
DISTRICT_LC == UnitTok("district", "district")
DISTRICTS == UnitTok("Districts", "districts")
COMMA == UnitTok(",", ",")
SLASH == UnitTok("/", "/")
PERIOD == UnitTok(".", ".")
\* The blank that f"{seg} Ranger District" puts before an empty seg.
LEAD_SPACE == UnitTok(" ", " ")

UnitTokens ==
    {LEADVILLE, BEARS_EARS, RD, RANGER, DISTRICT_LC, DISTRICTS, COMMA, SLASH,
     PERIOD}

UnitTexts == UNION {[1..n -> UnitTokens] : n \in 0..MaxUnitTokens}

\* seg.lower()
LowerText(seg) == [i \in 1..Len(seg) |-> UnitTok(seg[i].lc, seg[i].lc)]

\* ALIASES: "bears ears ranger district" ->
\* "hahns peak/bears ears ranger district".
ALIASES ==
    { [key |-> LowerText(<<BEARS_EARS, RANGER, DISTRICT>>),
       target |-> LowerText(<<UnitTok("Hahns Peak", "hahns peak"), SLASH,
                              BEARS_EARS, RANGER, DISTRICT>>)] }

\* s.split(sep): the pieces of s between the separators.
RECURSIVE SplitOn(_, _, _)
SplitOn(rest, sep, cur) ==
    IF rest = <<>> THEN <<cur>>
    ELSE IF Head(rest) = sep
    THEN <<cur>> \o SplitOn(Tail(rest), sep, <<>>)
    ELSE SplitOn(Tail(rest), sep, Append(cur, Head(rest)))

\* p.strip() is not empty
NonBlank(p) == p # <<>>

\* Mutant of LastPart: the part before the first "/" is kept.
LastPart_first(p) == SplitOn(p, SLASH, <<>>)[1]

\* p.split("/")[-1]
LastPart(p) ==
    LET pieces == SplitOn(p, SLASH, <<>>) IN pieces[Len(pieces)]

\* seg.rstrip(" .;:")
RECURSIVE RStrip(_)
RStrip(seg) ==
    IF seg # <<>> /\ seg[Len(seg)] = PERIOD
    THEN RStrip(SubSeq(seg, 1, Len(seg) - 1))
    ELSE seg

\* re.sub(r"\bRD\b\.?$", "Ranger District", seg, flags=re.IGNORECASE)
SubRD(seg) ==
    IF seg # <<>> /\ seg[Len(seg)].lc = "rd"
    THEN SubSeq(seg, 1, Len(seg) - 1) \o <<RANGER, DISTRICT>>
    ELSE seg

\* re.sub(r"\bRanger Districts\b", "Ranger District", seg, flags=re.IGNORECASE)
RECURSIVE SubDistricts(_)
SubDistricts(seg) ==
    IF Len(seg) < 2 THEN seg
    ELSE IF seg[1].lc = "ranger" /\ seg[2].lc = "districts"
    THEN <<RANGER, DISTRICT>> \o SubDistricts(SubSeq(seg, 3, Len(seg)))
    ELSE <<seg[1]>> \o SubDistricts(Tail(seg))

\* re.search(r"ranger district$", seg, flags=re.IGNORECASE)
EndsRangerDistrict(seg) ==
    /\ Len(seg) >= 2
    /\ seg[Len(seg) - 1].lc = "ranger"
    /\ seg[Len(seg)].lc = "district"

\* The suffix rule: a final "district" becomes "Ranger District", and any
\* other text gets " Ranger District" appended.
EnsureSuffix(seg) ==
    IF EndsRangerDistrict(seg) THEN seg
    ELSE IF seg # <<>> /\ seg[Len(seg)].lc = "district"
    THEN SubSeq(seg, 1, Len(seg) - 1) \o <<RANGER, DISTRICT>>
    ELSE IF seg = <<>> THEN <<LEAD_SPACE, RANGER, DISTRICT>>
    ELSE seg \o <<RANGER, DISTRICT>>

\* Mutant of ApplyAliases: the alias table is not consulted.
ApplyAliases_none(seg) == seg

\* if seg_lc in ALIASES: seg = ALIASES[seg_lc]
ApplyAliases(seg) ==
    IF \E a \in ALIASES : a.key = LowerText(seg)
    THEN (CHOOSE a \in ALIASES : a.key = LowerText(seg)).target
    ELSE seg

\* The body of the loop over parts.
NormalizePart(p) ==
    ApplyAliases(EnsureSuffix(SubDistricts(SubRD(RStrip(LastPart(p))))))

\* normalize_unit_text(unit): [] for an empty unit, else one candidate for
\* each part.
normalize_unit_text(unit) ==
    IF unit = <<>> THEN <<>>
    ELSE LET parts == SelectSeq(SplitOn(unit, COMMA, <<>>), NonBlank)
         IN  [k \in 1..Len(parts) |-> NormalizePart(parts[k])]

(***************************************************************************)
(* enrich_with_district_geoms: compute_centroids_csv(csv_path,             *)
(* districts_gdf)                                                          *)
(*                                                                         *)
(* A geometry is a non-empty set of one-degree cells <<i, j>> (the square  *)
(* with lower left corner (i, j)), so that the union of geometries is the  *)
(* union of the sets and the centroid is the mean of the cell centres.     *)
(* Coordinates are floats in hundredths; None and NaN are the empty set.   *)
(***************************************************************************)
HAHNS_PEAK == UnitTok("Hahns Peak", "hahns peak")

\* One row of districts_gdf: unit_lc = unit_name.str.strip().str.lower().
District(unit_name, geometry) ==
    [unit_name |-> unit_name, unit_lc |-> LowerText(unit_name),
     geometry |-> geometry]

LEADVILLE_WEST == {<<-107, 39>>, <<-106, 39>>}
LEADVILLE_EAST == {<<-106, 39>>, <<-105, 39>>, <<-105, 38>>}
HAHNS_PEAK_CELLS == {<<-107, 40>>}

\* Two district layers; in the second the name of a district is on two
\* features.
DistrictLayers ==
    { << District(<<LEADVILLE, RANGER, DISTRICT>>, LEADVILLE_WEST),
         District(<<HAHNS_PEAK, SLASH, BEARS_EARS, RANGER, DISTRICT>>,
                  HAHNS_PEAK_CELLS) >>,
      << District(<<LEADVILLE, RANGER, DISTRICT>>, LEADVILLE_WEST),
         District(<<HAHNS_PEAK, SLASH, BEARS_EARS, RANGER, DISTRICT>>,
                  HAHNS_PEAK_CELLS),
         District(<<LEADVILLE, RANGER, DISTRICT>>, LEADVILLE_EAST) >> }

\* The unit column: missing (NaN), one unit, two units, a unit no district
\* has, and a unit with a known and an unknown part.
CsvUnits ==
    { <<>>, <<LEADVILLE, RD>>, <<BEARS_EARS, RD>>,
      <<LEADVILLE, RD, COMMA, BEARS_EARS, RD>>, <<RD>>,
      <<RD, COMMA, LEADVILLE>> }

\* The longitude and latitude columns: NaN or a number.
CsvLongitudes == {{}, {Flt(-10499)}}
CsvLatitudes == {{}, {Flt(3974)}}

CsvRow(u, lon, lat) == [unit |-> u, longitude |-> lon, latitude |-> lat]

CsvRowValues ==
    {CsvRow(u, lon, lat) : u \in CsvUnits, lon \in CsvLongitudes,
                           lat \in CsvLatitudes}

\* u.strip()
Strip(u) == IF u # <<>> /\ u[1] = LEAD_SPACE THEN Tail(u) ELSE u

\* m = lut[lut["unit_lc"] == key], the matching features in layer order.
LutMatches(u, lut) ==
    LET key == LowerText(Strip(u))
        IsMatch(d) == d.unit_lc = key
    IN  SelectSeq(lut, IsMatch)

\* The features collected over the candidates of a row (unit_geoms and
\* matched_list grow together).
RECURSIVE CollectMatches(_, _)
CollectMatches(units, lut) ==
    IF units = <<>> THEN <<>>
    ELSE LutMatches(Head(units), lut) \o CollectMatches(Tail(units), lut)

\* unary_union(unit_geoms)
unary_union(matches) == UNION {matches[i].geometry : i \in 1..Len(matches)}

RECURSIVE SumCells(_, _)
SumCells(cells, axis) ==
    IF cells = {} THEN 0
    ELSE LET c == CHOOSE c \in cells : TRUE
         IN  (100 * c[axis] + 50) + SumCells(cells \ {c}, axis)

\* geom.centroid, x for axis 1 and y for axis 2, in hundredths.
Centroid(geom, axis) == Flt(TDiv(SumCells(geom, axis), Cardinality(geom)))

\* Mutant of FillWhere: a centroid replaces the value of the row.
FillWhere_overwrite(existing, centroid) ==
    IF centroid # {} THEN centroid ELSE existing

\* existing.where(existing.notna(), centroid)
FillWhere(existing, centroid) ==
    IF existing # {} THEN existing ELSE centroid

\* One pass of the loop over df.iterrows() and the row that out holds for it.
EnrichRow(r, lut) ==
    LET matches == CollectMatches(normalize_unit_text(r.unit), lut)
        geom == unary_union(matches)
        cx == IF matches # <<>> THEN {Centroid(geom, 1)} ELSE {}
        cy == IF matches # <<>> THEN {Centroid(geom, 2)} ELSE {}
    IN  [unit |-> r.unit,
         longitude |-> FillWhere(r.longitude, cx),
         latitude |-> FillWhere(r.latitude, cy),
         matched_units |-> [i \in 1..Len(matches) |-> matches[i].unit_name]]

\* compute_centroids_csv: matched_units <<>> is None.
compute_centroids_csv(df, districts_gdf) ==
    [i \in 1..Len(df) |-> EnrichRow(df[i], districts_gdf)]

(***************************************************************************)
(* build_map_assets: main()                                                *)
(*                                                                         *)
(* The input file holds a JSON text or a text that is not JSON.  A JSON    *)
(* object is the sequence of its members as written; a member value is a   *)
(* string or an array.                                                     *)
(***************************************************************************)
MaxMembers == 3

JsonString(s) == [kind |-> "string", s |-> s]
JsonArray == [kind |-> "array", s |-> ""]

MemberKeys == {"type", "features"}
MemberValues ==
    {JsonString("FeatureCollection"), JsonString("NotAFeatureCollection"),
     JsonArray}
Members == {[key |-> k, value |-> v] : k \in MemberKeys, v \in MemberValues}

FileText(kind, members) == [kind |-> kind, members |-> members]

\* The contents of the input file.
InputFiles ==
    {FileText("object", ms) :
        ms \in UNION {[1..n -> Members] : n \in 0..MaxMembers}}
    \cup {FileText(k, <<>>) :
            k \in {"array", "string", "number", "null", "invalid"}}

\* dict[key] = value: a key already present keeps its place.
DictSet(d, key, value) ==
    IF \E i \in 1..Len(d) : d[i].key = key
    THEN [i \in 1..Len(d) |->
            IF d[i].key = key THEN [key |-> key, value |-> value] ELSE d[i]]
    ELSE Append(d, [key |-> key, value |-> value])

RECURSIVE DictOf(_, _)
DictOf(members, d) ==
    IF members = <<>> THEN d
    ELSE DictOf(Tail(members),
                DictSet(d, Head(members).key, Head(members).value))

\* json.loads(s): JSONDecodeError for a text that is not JSON, else the
\* value, an object as a dict in which the last of equal keys wins.
json_loads(s) ==
    IF s.kind = "invalid"
    THEN [raised |-> "JSONDecodeError", kind |-> "", items |-> <<>>]
    ELSE [raised |-> "", kind |-> s.kind,
          items |-> DictOf(s.members, <<>>)]

\* json.dumps(data) of a dict: its items in their order.
json_dumps(data) == FileText(data.kind, data.items)

\* data.get("type"): the empty set when the key is absent.
DictGet(data, key) ==
    {data.items[i].value :
        i \in {j \in 1..Len(data.items) : data.items[j].key = key}}

\* Mutant of IsFeatureCollection: every dict passes the validation.
IsFeatureCollection_any_dict(data) == data.kind = "object"

\* not (not isinstance(data, dict) or data.get("type") != "FeatureCollection")
IsFeatureCollection(data) ==
    /\ data.kind = "object"
    /\ DictGet(data, "type") = {JsonString("FeatureCollection")}

\* The file at out_path before main wrote it.
NoFile == <<>>

\* main(): how it ends and the output file it leaves.
build_main(s) ==
    LET data == json_loads(s)
    IN  IF data.raised # ""
        THEN [exit |-> data.raised, out |-> NoFile]
        ELSE IF ~IsFeatureCollection(data)
        THEN [exit |-> "SystemExit", out |-> NoFile]
        ELSE [exit |-> "done", out |-> json_dumps(data)]

(***************************************************************************)
(* blm_scrape: fetch_all_participation_text_browser(page, project_id) and  *)
(* the loop body of scrape_projects_with_browser                           *)
(*                                                                         *)
(* A page is what the browser does for one tab: goto succeeds or raises,   *)
(* inner_text returns a text or raises, and so does evaluate.  The texts   *)
(* returned are sets of at most one text, empty when the call raises.      *)
(***************************************************************************)
Page(goto, inner, eval) == [goto |-> goto, inner |-> inner, eval |-> eval]

\* Page texts: the empty page, a page with a deadline, a page without dates.
FetchTexts == {<<>>, <<COMMENTS, DUE_BY, SEP_15, DOT>>, <<THROUGH>>}

Pages ==
    {Page("error", {}, {})}
    \cup {Page("ok", {t}, {}) : t \in FetchTexts}
    \cup {Page("ok", {}, {t}) : t \in FetchTexts}
    \cup {Page("ok", {}, {})}

\* _page_inner_text(page): inner_text, else evaluate, else "".
page_inner_text(page) ==
    IF page.inner # {} THEN CHOOSE t \in page.inner : TRUE
    ELSE IF page.eval # {} THEN CHOOSE t \in page.eval : TRUE
    ELSE <<>>

\* out[tab] = txt
DictPut(out, tab, txt) ==
    [k \in DOMAIN out \cup {tab} |-> IF k = tab THEN txt ELSE out[k]]

\* One pass of the loop over PARTICIPATION_PATHS: out after the tab.
FetchTab(out, tab, page) ==
    IF page.goto = "ok" /\ page_inner_text(page) # <<>>
    THEN DictPut(out, tab, TextOf(page_inner_text(page)))
    ELSE out

\* tab_texts.get(tab) for each tab, as _scrape_project_from_texts reads it.
TabGet(out) ==
    [tab \in Range(PARTICIPATION_PATHS) |->
        IF tab \in DOMAIN out THEN out[tab] ELSE NoText]

(***************************************************************************)
(* usfs_sopa_scrape: extract_date_range(text)                              *)
(*                                                                         *)
(* A text is a sequence of tokens: a long date ("July 15, 2025"; one that  *)
(* is no calendar date, as "February 30, 2025", fails to parse), a short   *)
(* date ("07/2025", the first day of its month), the phrase "Comment       *)
(* Period Public Notice", or another word.  A date is its day number, day  *)
(* 1 and day 32 being the first days of two consecutive months.            *)
(***************************************************************************)
MaxUsfsTokens == 3
EXPECTED_WINDOW_DAYS == 30

UsfsTok(kind, day) == [kind |-> kind, day |-> day]

LongDate(day) == UsfsTok("long", day)
BadLongDate == UsfsTok("badlong", 0)
ShortDate(day) == UsfsTok("short", day)
NOTICE == UsfsTok("Comment Period Public Notice", 0)
OTHER_WORD == UsfsTok("word", 0)

MonthStarts == {1, 32}
LongDays == {1, 15, 32}

UsfsTokens ==
    {LongDate(d) : d \in LongDays} \cup {BadLongDate}
    \cup {ShortDate(d) : d \in MonthStarts} \cup {NOTICE, OTHER_WORD}

UsfsTexts == UNION {[1..n -> UsfsTokens] : n \in 0..MaxUsfsTokens}

\* datetime.today().date(): before, between, on and after the dates.
UsfsTodays == {1, 10, 15, 40}

\* re.findall(date_regex, text): the long dates, in text order.
IsLong(t) == t.kind \in {"long", "badlong"}
long_dates(txt) == SelectSeq(txt, IsLong)

\* re.findall(short_regex, text)
IsShort(t) == t.kind = "short"
short_dates(txt) == SelectSeq(txt, IsShort)

\* datetime.strptime(d, ...).date(): the set holding the date, empty when
\* strptime raises.
Strptime(t) == IF t.kind \in {"long", "short"} THEN {t.day} ELSE {}

\* The dates parsed from the long dates and then from the short ones, those
\* that fail to parse skipped.
ParsedOf(ds) == {d \in 0..(2 * MaxDay) : \E i \in 1..Len(ds) : d \in Strptime(ds[i])}

\* Mutant of SortedSeq: the latest date comes first.
RECURSIVE SortedSeq_desc(_)
SortedSeq_desc(xs) ==
    IF xs = {} THEN <<>>
    ELSE LET most == CHOOSE x \in xs : \A y \in xs : y <= x
         IN  <<most>> \o SortedSeq_desc(xs \ {most})

\* sorted(xs) of a set of dates.
RECURSIVE SortedSeq(_)
SortedSeq(xs) ==
    IF xs = {} THEN <<>>
    ELSE LET least == CHOOSE x \in xs : \A y \in xs : x <= y
         IN  <<least>> \o SortedSeq(xs \ {least})

\* parsed_dates = sorted(set(parsed_dates))
parsed_dates(txt) ==
    SortedSeq(ParsedOf(long_dates(txt)) \cup ParsedOf(short_dates(txt)))

\* The expected window of a public notice: the first long date of the text
\* and the day 30 days later; nothing when the date fails to parse.
ExpectedWindow(txt) ==
    IF (\E i \in 1..Len(txt) : txt[i] = NOTICE) /\ long_dates(txt) # <<>>
    THEN {<<d, d + EXPECTED_WINDOW_DAYS>> : d \in Strptime(long_dates(txt)[1])}
    ELSE {}

\* Mutant of CommentWindow: a single date is both bounds.
CommentWindow_both(ds, t) ==
    IF Len(ds) = 1 THEN <<{ds[1]}, {ds[1]}>>
    ELSE IF Len(ds) >= 2 THEN <<{ds[1]}, {ds[2]}>>
    ELSE <<{}, {}>>

\* (comment_start, comment_end) from the parsed dates; a bound is a set of
\* at most one date, empty for None.
CommentWindow(ds, t) ==
    IF Len(ds) = 1
    THEN (IF ds[1] < t THEN <<{}, {ds[1]}>> ELSE <<{ds[1]}, {}>>)
    ELSE IF Len(ds) >= 2 THEN <<{ds[1]}, {ds[2]}>>
    ELSE <<{}, {}>>

\* a or b on optional dates
OrElse(a, b) == IF a # {} THEN a ELSE b

\* x.isoformat() if x else None
IsoOrNone(x) == IF x = {} THEN NoDateArg ELSE IsoDateArg(CHOOSE d \in x : TRUE)

extract_date_range(txt, t) ==
    LET cw == CommentWindow(parsed_dates(txt), t)
        comment_start == cw[1]
        comment_end == cw[2]
        expected_start == {w[1] : w \in ExpectedWindow(txt)}
        expected_end == {w[2] : w \in ExpectedWindow(txt)}
        start_date == OrElse(comment_start,
                             OrElse(expected_start,
                                    OrElse(comment_end, expected_end)))
    IN  [start_date |-> IsoOrNone(start_date),
         comment_start |-> IsoOrNone(comment_start),
         comment_end |-> IsoOrNone(comment_end),
         expected_comment_start |-> IsoOrNone(expected_start),
         expected_comment_end |-> IsoOrNone(expected_end)]

(***************************************************************************)
(* enrich_with_district_geoms: load_ranger_districts()                     *)
(*                                                                         *)
(* The district service holds a list of features, reports maxRecordCount   *)
(* and supportsPagination, and names the districts in one of the fields    *)
(* the loader knows, or in none.  A query with resultOffset and            *)
(* resultRecordCount returns the features from the offset on, at most      *)
(* resultRecordCount of them; a query by objectIds returns those features. *)
(***************************************************************************)
MaxFeatures == 6
MaxRecordCount == 4

\* Feature number oid of the layer.
LayerFeature(oid) ==
    [oid |-> oid,
     name |-> IF oid % 2 = 1 THEN <<LEADVILLE, RANGER, DISTRICT>>
              ELSE <<HAHNS_PEAK, SLASH, BEARS_EARS, RANGER, DISTRICT>>]

NAME_FIELDS == <<"DISTRICTNAME", "RDNAME", "NAME">>

Services ==
    {[features |-> [i \in 1..n |-> LayerFeature(i)],
      maxRecordCount |-> c,
      supportsPagination |-> p,
      name_column |-> f] :
        n \in 0..MaxFeatures, c \in 1..MaxRecordCount, p \in BOOLEAN,
        f \in {"DISTRICTNAME", "NAME", "OBJECTID"}}

\* _query_geojson with resultOffset and resultRecordCount.
QueryPage(svc, off, count) ==
    SubSeq(svc.features, off + 1,
           IF off + count <= Len(svc.features) THEN off + count
           ELSE Len(svc.features))

\* _query_json with returnIdsOnly: oid_resp.get("objectIds") or [].
QueryIds(svc) == [i \in 1..Len(svc.features) |-> svc.features[i].oid]

\* _query_geojson with objectIds = oids[i:i+max_count].
QueryByIds(svc, oids, i, count) ==
    LET last == IF i + count <= Len(oids) THEN i + count ELSE Len(oids)
        wanted == {oids[k] : k \in (i + 1)..last}
        Wanted(f) == f.oid \in wanted
    IN  SelectSeq(svc.features, Wanted)

\* Mutant of IsLastPage: a full page ends the paging as well.
IsLastPage_full(gdf, max_count) == Len(gdf) <= max_count

\* len(gdf) < max_count
IsLastPage(gdf, max_count) == Len(gdf) < max_count

\* pd.concat(chunks, ignore_index=True)
RECURSIVE Concat(_)
Concat(cs) == IF cs = <<>> THEN <<>> ELSE Head(cs) \o Concat(Tail(cs))

\* next((f for f in ["DISTRICTNAME", "RDNAME", "NAME"] if f in columns), None):
\* the set holding the field, empty for None.
NameField(svc) ==
    {NAME_FIELDS[i] : i \in {k \in 1..Len(NAME_FIELDS) :
                                /\ NAME_FIELDS[k] = svc.name_column
                                /\ \A j \in 1..(k - 1) :
                                       NAME_FIELDS[j] # svc.name_column}}

\* gdf_all[["unit_name", "unit_lc", "geometry"]]
DistrictTable(rows) ==
    [i \in 1..Len(rows) |->
        [unit_name |-> rows[i].name, unit_lc |-> LowerText(rows[i].name),
         geometry |-> rows[i].oid]]

(***************************************************************************)
(* Values of the variables a specification does not use.                   *)
(***************************************************************************)
IdleStatus ==
    /\ cs_start = NoDateArg
    /\ cs_end = NoDateArg
    /\ today = 0
    /\ comment_status = ""

IdleDates ==
    /\ text = <<>>
    /\ window = <<>>

IdleBuild ==
    /\ tab_texts = <<>>
    /\ record = <<>>

IdleCoords ==
    /\ coord_in = <<>>
    /\ coord_out = <<>>

IdleUnify ==
    /\ tables = <<>>
    /\ all_rows = <<>>
    /\ geojson = <<>>

IdleUnits ==
    /\ unit_in = <<>>
    /\ cleaned = <<>>

IdleEnrich ==
    /\ csv_rows = <<>>
    /\ districts = <<>>
    /\ out_df = <<>>

IdleAssets ==
    /\ in_file = <<>>
    /\ out_file = <<>>

IdleFetch ==
    /\ site = <<>>
    /\ visited = <<>>
    /\ out_tabs = <<>>

IdleUsfs ==
    /\ usfs_text = <<>>
    /\ usfs_today = 0
    /\ usfs_dates = <<>>

IdleLoad ==
    /\ service = <<>>
    /\ offset = 0
    /\ chunks = <<>>
    /\ gdf_all = <<>>

(***************************************************************************)
(* SpecStatus: one call of compute_status on arbitrary arguments.          *)
(***************************************************************************)
InitStatus ==
    /\ pc = "ready"
    /\ cs_start \in DateArgs
    /\ cs_end \in DateArgs
    /\ today \in Todays
    /\ comment_status = ""
    /\ current_year = 0
    /\ IdleDates
    /\ IdleBuild
    /\ IdleCoords
    /\ IdleUnify
    /\ IdleUnits
    /\ IdleEnrich
    /\ IdleAssets
    /\ IdleFetch
    /\ IdleUsfs
    /\ IdleLoad

CallComputeStatus ==
    /\ pc = "ready"
    /\ comment_status' = compute_status(cs_start, cs_end, today)
    /\ pc' = "done"
    /\ UNCHANGED <<fetchVars, usfsVars, loadVars,
                   unitVars, enrichVars, assetVars,
                   cs_start, cs_end, today, text, current_year, window,
                   tab_texts, record,
                   coordVars, unifyVars>>

NextStatus == CallComputeStatus

SpecStatus == InitStatus /\ [][NextStatus]_vars

(***************************************************************************)
(* SpecDates: one call of parse_dates_from_text on an arbitrary text.      *)
(***************************************************************************)
InitDates ==
    /\ pc = "ready"
    /\ text \in Texts
    /\ current_year \in CurrentYears
    /\ window = <<>>
    /\ IdleStatus
    /\ IdleBuild
    /\ IdleCoords
    /\ IdleUnify
    /\ IdleUnits
    /\ IdleEnrich
    /\ IdleAssets
    /\ IdleFetch
    /\ IdleUsfs
    /\ IdleLoad

CallParseDates ==
    /\ pc = "ready"
    /\ window' = parse_dates_from_text(text, current_year)
    /\ pc' = "done"
    /\ UNCHANGED <<fetchVars, usfsVars, loadVars,
                   unitVars, enrichVars, assetVars,
                   cs_start, cs_end, today, comment_status, text, current_year,
                   tab_texts, record,
                   coordVars, unifyVars>>

NextDates == CallParseDates

SpecDates == InitDates /\ [][NextDates]_vars

(***************************************************************************)
(* SpecBuild: one call of _scrape_project_from_texts on arbitrary tabs.    *)
(* record holds the arguments' project id before the call.                 *)
(***************************************************************************)
InitBuild ==
    /\ pc = "ready"
    /\ tab_texts \in [Range(PARTICIPATION_PATHS) -> TabValues]
    /\ current_year \in CurrentYears
    /\ record \in {[project_id |-> p] : p \in ProjectIds}
    /\ IdleStatus
    /\ IdleDates
    /\ IdleCoords
    /\ IdleUnify
    /\ IdleUnits
    /\ IdleEnrich
    /\ IdleAssets
    /\ IdleFetch
    /\ IdleUsfs
    /\ IdleLoad

CallScrapeProject ==
    /\ pc = "ready"
    /\ record' = scrape_project_from_texts(record.project_id, "CO", tab_texts,
                                           current_year)
    /\ pc' = "done"
    /\ UNCHANGED <<fetchVars, usfsVars, loadVars,
                   unitVars, enrichVars, assetVars,
                   cs_start, cs_end, today, comment_status, text, current_year,
                   window, tab_texts,
                   coordVars, unifyVars>>

NextBuild == CallScrapeProject

SpecBuild == InitBuild /\ [][NextBuild]_vars

(***************************************************************************)
(* SpecCoords: looks_like_3857, merc3857_to_wgs84 and map_rows_to_final on *)
(* one row with an arbitrary coordinate pair.                              *)
(***************************************************************************)
\* Values on both sides of every limit: -180, -104.9, 0, 39.7, 90, 90.01,
\* 180, 180.01, 500, 1000, 1000.01, -11686000, 4808000 and 21000000.
CoordValues ==
    {-18000, -10490, 0, 3970, 9000, 9001, 18000, 18001, 50000, 100000,
     100001, -1168600000, 480800000, 2100000000}

CoordCells ==
    {EmptyCell, TextCell("n/a"), BigCell(1), BigCell(-1)}
        \cup {NumCell(v) : v \in CoordValues}

NoConversion == [raised |-> FALSE, lon |-> Flt(0), lat |-> Flt(0)]

\* The table of one row that holds the pair.
CoordTable(lon_str, lat_str) ==
    [columns |-> {"longitude", "latitude"},
     rows |-> << [c \in {"longitude", "latitude"} |->
                     IF c = "longitude" THEN lon_str ELSE lat_str] >>]

InitCoords ==
    /\ pc = "ready"
    /\ coord_in \in [source : {"BLM", "USFS"}, lon_str : CoordCells,
                     lat_str : CoordCells]
    /\ coord_out = [is_3857 |-> FALSE, converted |-> NoConversion, rows |-> <<>>]
    /\ current_year = 0
    /\ IdleStatus
    /\ IdleDates
    /\ IdleBuild
    /\ IdleUnify
    /\ IdleUnits
    /\ IdleEnrich
    /\ IdleAssets
    /\ IdleFetch
    /\ IdleUsfs
    /\ IdleLoad

CallLooksLike3857 ==
    /\ pc = "ready"
    /\ coord_out' = [coord_out EXCEPT
                         !.is_3857 = looks_like_3857(coord_in.lon_str,
                                                     coord_in.lat_str)]
    /\ pc' = "classified"
    /\ UNCHANGED <<fetchVars, usfsVars, loadVars,
                   unitVars, enrichVars, assetVars,
                   statusVars, datesVars, buildVars, unifyVars, current_year,
                   coord_in>>

CallMerc3857ToWgs84 ==
    /\ pc = "classified"
    /\ coord_out.is_3857
    /\ coord_out' = [coord_out EXCEPT
                         !.converted =
                             merc3857_to_wgs84(
                                 CHOOSE v \in FloatOf(coord_in.lon_str) : TRUE,
                                 CHOOSE v \in FloatOf(coord_in.lat_str) : TRUE)]
    /\ pc' = "converted"
    /\ UNCHANGED <<fetchVars, usfsVars, loadVars,
                   unitVars, enrichVars, assetVars,
                   statusVars, datesVars, buildVars, unifyVars, current_year,
                   coord_in>>

CallMapRowsToFinal ==
    /\ pc = "converted" \/ (pc = "classified" /\ ~coord_out.is_3857)
    /\ coord_out' = [coord_out EXCEPT
                         !.rows =
                             map_rows_to_final(
                                 CoordTable(coord_in.lon_str, coord_in.lat_str),
                                 coord_in.source).rows]
    /\ pc' = "done"
    /\ UNCHANGED <<fetchVars, usfsVars, loadVars,
                   unitVars, enrichVars, assetVars,
                   statusVars, datesVars, buildVars, unifyVars, current_year,
                   coord_in>>

NextCoords == CallLooksLike3857 \/ CallMerc3857ToWgs84 \/ CallMapRowsToFinal

SpecCoords == InitCoords /\ [][NextCoords]_vars

(***************************************************************************)
(* SpecUnify: one run of main on one or two input tables.                  *)
(***************************************************************************)
NoGeojson == [raised |-> FALSE, type |-> "", features |-> <<>>]

InitUnify ==
    /\ pc = "ready"
    /\ \E first \in UNION {TablesOf(l, u, MaxRows) :
                                l \in Layouts, u \in {BLM_URL, USFS_URL}} :
           \/ tables = <<first>>
           \/ \E second \in TablesOf(USFS_COLUMNS, USFS_URL, 1) :
                  tables = <<first, second>>
    /\ all_rows = <<>>
    /\ geojson = NoGeojson
    /\ current_year = 0
    /\ IdleStatus
    /\ IdleDates
    /\ IdleBuild
    /\ IdleCoords
    /\ IdleUnits
    /\ IdleEnrich
    /\ IdleAssets
    /\ IdleFetch
    /\ IdleUsfs
    /\ IdleLoad

\* main: map every input, then build the GeoJSON from all_rows.
Main ==
    /\ pc = "ready"
    /\ LET m == MainRows(tables, Len(tables))
       IN  IF m.raised
           THEN /\ pc' = "raised"
                /\ UNCHANGED <<fetchVars, usfsVars, loadVars,
                   unitVars, enrichVars, assetVars,
                   all_rows, geojson>>
           ELSE /\ all_rows' = m.rows
                /\ geojson' = to_geojson(m.rows)
                /\ pc' = "done"
    /\ UNCHANGED <<fetchVars, usfsVars, loadVars,
                   unitVars, enrichVars, assetVars,
                   statusVars, datesVars, buildVars, coordVars, current_year,
                   tables>>

NextUnify == Main

SpecUnify == InitUnify /\ [][NextUnify]_vars

(***************************************************************************)
(* SpecExport: one call of to_geojson on arbitrary rows of the minimal     *)
(* schema, with or without coordinates.                                    *)
(***************************************************************************)
ExportCoords ==
    { [lon |-> {}, lat |-> {}],
      [lon |-> {Flt(-10490)}, lat |-> {Flt(3970)}],
      [lon |-> {Flt(0)}, lat |-> {Flt(0)}],
      [lon |-> {Flt(3970)}, lat |-> {Flt(-10490)}] }

ExportRows ==
    { [project_name |-> t.id, source |-> s, start_date |-> to_iso(t.start),
       end_date |-> to_iso(t.end), notes |-> t.notes,
       longitude |-> c.lon, latitude |-> c.lat] :
          t \in RowTexts, s \in {"BLM", "USFS"}, c \in ExportCoords }

InitExport ==
    /\ pc = "ready"
    /\ tables = <<>>
    /\ all_rows \in UNION {[1..n -> ExportRows] : n \in 0..MaxRows}
    /\ geojson = NoGeojson
    /\ current_year = 0
    /\ IdleStatus
    /\ IdleDates
    /\ IdleBuild
    /\ IdleCoords
    /\ IdleUnits
    /\ IdleEnrich
    /\ IdleAssets
    /\ IdleFetch
    /\ IdleUsfs
    /\ IdleLoad

CallToGeojson ==
    /\ pc = "ready"
    /\ geojson' = to_geojson(all_rows)
    /\ pc' = "done"
    /\ UNCHANGED <<fetchVars, usfsVars, loadVars,
                   unitVars, enrichVars, assetVars,
                   statusVars, datesVars, buildVars, coordVars, current_year,
                   tables, all_rows>>

NextExport == CallToGeojson

SpecExport == InitExport /\ [][NextExport]_vars

(***************************************************************************)
(* SpecUnits: one call of normalize_unit_text on an arbitrary unit text.   *)
(***************************************************************************)
InitUnits ==
    /\ pc = "ready"
    /\ unit_in \in UnitTexts
    /\ cleaned = <<>>
    /\ current_year = 0
    /\ IdleStatus
    /\ IdleDates
    /\ IdleBuild
    /\ IdleCoords
    /\ IdleUnify
    /\ IdleEnrich
    /\ IdleAssets
    /\ IdleFetch
    /\ IdleUsfs
    /\ IdleLoad

CallNormalizeUnitText ==
    /\ pc = "ready"
    /\ cleaned' = normalize_unit_text(unit_in)
    /\ pc' = "done"
    /\ UNCHANGED <<fetchVars, usfsVars, loadVars,
                   statusVars, datesVars, buildVars, coordVars, unifyVars,
                   enrichVars, assetVars, current_year, unit_in>>

NextUnits == CallNormalizeUnitText

SpecUnits == InitUnits /\ [][NextUnits]_vars

(***************************************************************************)
(* SpecEnrich: one call of compute_centroids_csv on a CSV of up to MaxRows *)
(* rows and a district layer.                                              *)
(***************************************************************************)
InitEnrich ==
    /\ pc = "ready"
    /\ csv_rows \in UNION {[1..n -> CsvRowValues] : n \in 0..MaxRows}
    /\ districts \in DistrictLayers
    /\ out_df = <<>>
    /\ current_year = 0
    /\ IdleStatus
    /\ IdleDates
    /\ IdleBuild
    /\ IdleCoords
    /\ IdleUnify
    /\ IdleUnits
    /\ IdleAssets
    /\ IdleFetch
    /\ IdleUsfs
    /\ IdleLoad

CallComputeCentroidsCsv ==
    /\ pc = "ready"
    /\ out_df' = compute_centroids_csv(csv_rows, districts)
    /\ pc' = "done"
    /\ UNCHANGED <<fetchVars, usfsVars, loadVars,
                   statusVars, datesVars, buildVars, coordVars, unifyVars,
                   unitVars, assetVars, current_year, csv_rows, districts>>

NextEnrich == CallComputeCentroidsCsv

SpecEnrich == InitEnrich /\ [][NextEnrich]_vars

(***************************************************************************)
(* SpecAssets: one run of build_map_assets.main on an input file.          *)
(***************************************************************************)
InitAssets ==
    /\ pc = "ready"
    /\ in_file \in InputFiles
    /\ out_file = NoFile
    /\ current_year = 0
    /\ IdleStatus
    /\ IdleDates
    /\ IdleBuild
    /\ IdleCoords
    /\ IdleUnify
    /\ IdleUnits
    /\ IdleEnrich
    /\ IdleFetch
    /\ IdleUsfs
    /\ IdleLoad

\* pc is "done" after a normal return and the name of the exception otherwise.
BuildMain ==
    /\ pc = "ready"
    /\ pc' = build_main(in_file).exit
    /\ out_file' = build_main(in_file).out
    /\ UNCHANGED <<fetchVars, usfsVars, loadVars,
                   statusVars, datesVars, buildVars, coordVars, unifyVars,
                   unitVars, enrichVars, current_year, in_file>>

NextAssets == BuildMain

SpecAssets == InitAssets /\ [][NextAssets]_vars

(***************************************************************************)
(* SpecFetch: scrape_projects_with_browser for one project: the three tabs *)
(* are fetched one by one, then the record is built from what was fetched. *)
(***************************************************************************)
NoDict == [k \in {} |-> NoText]

InitFetch ==
    /\ pc = "ready"
    /\ site \in [Range(PARTICIPATION_PATHS) -> Pages]
    /\ visited = <<>>
    /\ out_tabs = NoDict
    /\ current_year = 2025
    /\ tab_texts = <<>>
    /\ record = [project_id |-> "2029163"]
    /\ IdleStatus
    /\ IdleDates
    /\ IdleCoords
    /\ IdleUnify
    /\ IdleUnits
    /\ IdleEnrich
    /\ IdleAssets
    /\ IdleUsfs
    /\ IdleLoad

\* for tab in PARTICIPATION_PATHS: one pass of the loop.
VisitTab ==
    /\ pc = "ready"
    /\ Len(visited) < Len(PARTICIPATION_PATHS)
    /\ LET tab == PARTICIPATION_PATHS[Len(visited) + 1]
       IN  /\ visited' = Append(visited, tab)
           /\ out_tabs' = FetchTab(out_tabs, tab, site[tab])
    /\ UNCHANGED <<statusVars, datesVars, buildVars, coordVars, unifyVars,
                   unitVars, enrichVars, assetVars, usfsVars, loadVars,
                   pc, current_year, site>>

\* return out; res = _scrape_project_from_texts(pid, state, tab_texts)
BuildResult ==
    /\ pc = "ready"
    /\ Len(visited) = Len(PARTICIPATION_PATHS)
    /\ tab_texts' = TabGet(out_tabs)
    /\ record' = scrape_project_from_texts(record.project_id, "CO",
                                           TabGet(out_tabs), current_year)
    /\ pc' = "done"
    /\ UNCHANGED <<statusVars, datesVars, coordVars, unifyVars, unitVars,
                   enrichVars, assetVars, usfsVars, loadVars, fetchVars,
                   current_year>>

NextFetch == VisitTab \/ BuildResult

SpecFetch == InitFetch /\ [][NextFetch]_vars

(***************************************************************************)
(* SpecUsfs: one call of extract_date_range on an arbitrary text and day.  *)
(***************************************************************************)
InitUsfs ==
    /\ pc = "ready"
    /\ usfs_text \in UsfsTexts
    /\ usfs_today \in UsfsTodays
    /\ usfs_dates = <<>>
    /\ current_year = 0
    /\ IdleStatus
    /\ IdleDates
    /\ IdleBuild
    /\ IdleCoords
    /\ IdleUnify
    /\ IdleUnits
    /\ IdleEnrich
    /\ IdleAssets
    /\ IdleFetch
    /\ IdleLoad

CallExtractDateRange ==
    /\ pc = "ready"
    /\ usfs_dates' = extract_date_range(usfs_text, usfs_today)
    /\ pc' = "done"
    /\ UNCHANGED <<statusVars, datesVars, buildVars, coordVars, unifyVars,
                   unitVars, enrichVars, assetVars, fetchVars, loadVars,
                   current_year, usfs_text, usfs_today>>

NextUsfs == CallExtractDateRange

SpecUsfs == InitUsfs /\ [][NextUsfs]_vars

(***************************************************************************)
(* SpecLoad: load_ranger_districts against a district service, one query   *)
(* per step.  pc is "info" before the layer metadata is read, "paging"     *)
(* in the paging loop, "ids" and "batches" on the path without pagination, *)
(* "concat" after the loops, and at the end "done" or "RuntimeError".      *)
(* SpecLoadFair adds that the loader keeps running until it ends.          *)
(***************************************************************************)
InitLoad ==
    /\ pc = "info"
    /\ service \in Services
    /\ offset = 0
    /\ chunks = <<>>
    /\ gdf_all = <<>>
    /\ current_year = 0
    /\ IdleStatus
    /\ IdleDates
    /\ IdleBuild
    /\ IdleCoords
    /\ IdleUnify
    /\ IdleUnits
    /\ IdleEnrich
    /\ IdleAssets
    /\ IdleFetch
    /\ IdleUsfs

\* info = _layer_info(); max_count; supports_pagination
LayerInfo ==
    /\ pc = "info"
    /\ pc' = IF service.supportsPagination THEN "paging" ELSE "ids"
    /\ UNCHANGED <<statusVars, datesVars, buildVars, coordVars, unifyVars,
                   unitVars, enrichVars, assetVars, fetchVars, usfsVars,
                   current_year, loadVars>>

\* One pass of the while True loop.
PageStep ==
    /\ pc = "paging"
    /\ LET gdf == QueryPage(service, offset, service.maxRecordCount)
       IN  IF gdf = <<>>
           THEN /\ pc' = "concat"
                /\ UNCHANGED <<offset, chunks>>
           ELSE /\ chunks' = Append(chunks, gdf)
                /\ IF IsLastPage(gdf, service.maxRecordCount)
                   THEN pc' = "concat" /\ UNCHANGED offset
                   ELSE /\ pc' = "paging"
                        /\ offset' = offset + service.maxRecordCount
    /\ UNCHANGED <<statusVars, datesVars, buildVars, coordVars, unifyVars,
                   unitVars, enrichVars, assetVars, fetchVars, usfsVars,
                   current_year, service, gdf_all>>

\* The object ids are fetched; without ids a single query is tried.
IdsStep ==
    /\ pc = "ids"
    /\ IF QueryIds(service) # <<>>
       THEN pc' = "batches" /\ UNCHANGED chunks
       ELSE LET gdf == QueryPage(service, 0, service.maxRecordCount)
            IN  IF gdf = <<>>
                THEN pc' = "RuntimeError" /\ UNCHANGED chunks
                ELSE pc' = "concat" /\ chunks' = Append(chunks, gdf)
    /\ UNCHANGED <<statusVars, datesVars, buildVars, coordVars, unifyVars,
                   unitVars, enrichVars, assetVars, fetchVars, usfsVars,
                   current_year, service, offset, gdf_all>>

\* One pass of for i in range(0, len(oids), max_count).
BatchStep ==
    /\ pc = "batches"
    /\ IF offset < Len(QueryIds(service))
       THEN LET gdf == QueryByIds(service, QueryIds(service), offset,
                                  service.maxRecordCount)
            IN  /\ chunks' = IF gdf # <<>> THEN Append(chunks, gdf) ELSE chunks
                /\ offset' = offset + service.maxRecordCount
                /\ pc' = "batches"
       ELSE pc' = "concat" /\ UNCHANGED <<offset, chunks>>
    /\ UNCHANGED <<statusVars, datesVars, buildVars, coordVars, unifyVars,
                   unitVars, enrichVars, assetVars, fetchVars, usfsVars,
                   current_year, service, gdf_all>>

\* The table is assembled: RuntimeError without features or name field.
ConcatStep ==
    /\ pc = "concat"
    /\ IF Concat(chunks) = <<>> \/ NameField(service) = {}
       THEN pc' = "RuntimeError" /\ UNCHANGED gdf_all
       ELSE pc' = "done" /\ gdf_all' = DistrictTable(Concat(chunks))
    /\ UNCHANGED <<statusVars, datesVars, buildVars, coordVars, unifyVars,
                   unitVars, enrichVars, assetVars, fetchVars, usfsVars,
                   current_year, service, offset, chunks>>

NextLoad == LayerInfo \/ PageStep \/ IdsStep \/ BatchStep \/ ConcatStep

SpecLoad == InitLoad /\ [][NextLoad]_vars

SpecLoadFair == SpecLoad /\ WF_vars(NextLoad)

(***************************************************************************)
(* SpecExtractors: one call of either date extractor, the BLM              *)
(* parse_dates_from_text or the USFS extract_date_range, on its input.     *)
(***************************************************************************)
InitExtractors == InitDates \/ InitUsfs

\* The BLM extractor runs when the input drawn is a BLM page text.
ExtractBlm ==
    /\ usfs_today = 0
    /\ CallParseDates

\* The USFS extractor runs when the input drawn is a SOPA text and a day.
ExtractUsfs ==
    /\ usfs_today # 0
    /\ CallExtractDateRange

NextExtractors == ExtractBlm \/ ExtractUsfs

SpecExtractors == InitExtractors /\ [][NextExtractors]_vars

(***************************************************************************)
(* From the BLM record builder to the unifier: blm_scrape.main writes the  *)
(* records with csv.DictWriter, standardize.main reads the file back with  *)
(* pd.read_csv(p, dtype=str).fillna("") and maps it.                       *)
(***************************************************************************)
\* A date of a record as the cell of the file: None is written as the empty
\* string, an ISO string as it is.
CsvDate(d) ==
    IF d = None THEN EmptyCell
    ELSE DateCell(d[1] * 10000 + d[2] * 100 + d[3], "iso")

\* A text of a record as the cell of the file.
CsvText(s) == IF s = <<>> THEN EmptyCell ELSE TextCell(s)

\* The file of one record, as read back.  Every source_url of a record is
\* an address under eplanning.blm.gov, which is all detect_source reads of
\* it: BLM_URL stands for such an address.
WriteRecord(rec) ==
    [columns |-> BLM_SCRAPE_COLUMNS,
     rows |-> << [c \in BLM_SCRAPE_COLUMNS |->
                    CASE c = "project_id" -> TextCell(rec.project_id)
                      [] c = "agency" -> TextCell(rec.agency)
                      [] c = "title" -> TextCell(rec.title)
                      [] c = "description" -> CsvText(rec.description)
                      [] c = "comment_start_date"
                            -> CsvDate(rec.comment_start_date)
                      [] c = "comment_end_date"
                            -> CsvDate(rec.comment_end_date)
                      [] c = "source_url" -> BLM_URL
                      [] c = "state" -> TextCell(rec.state)
                      [] c = "scrape_confidence"
                            -> NumCell(rec.scrape_confidence)
                      [] c = "notes_tabs" -> TextCell(rec.notes_tabs)
                      [] c = "notes_examples" -> CsvText(rec.notes_examples)
                      [] OTHER -> EmptyCell] >>]

(***************************************************************************)
(* SpecPipeline: a project is scraped into a record, the record is written *)
(* to the BLM file and the unifier is run on that file.                    *)
(***************************************************************************)
InitPipeline == InitBuild

\* scrape_projects_with_browser / main of blm_scrape: build the record and
\* write the file.
ScrapeAndWrite ==
    /\ pc = "ready"
    /\ record' = scrape_project_from_texts(record.project_id, "CO", tab_texts,
                                           current_year)
    /\ tables' = <<WriteRecord(record')>>
    /\ pc' = "written"
    /\ UNCHANGED <<fetchVars, usfsVars, loadVars,
                   unitVars, enrichVars, assetVars,
                   cs_start, cs_end, today, comment_status, text, current_year,
                   window, tab_texts, coordVars, all_rows, geojson>>

\* main of standardize on the written file.
Unify ==
    /\ pc = "written"
    /\ LET m == MainRows(tables, Len(tables))
       IN  IF m.raised
           THEN /\ pc' = "raised"
                /\ UNCHANGED <<all_rows, geojson>>
           ELSE /\ all_rows' = m.rows
                /\ geojson' = to_geojson(m.rows)
                /\ pc' = "done"
    /\ UNCHANGED <<fetchVars, usfsVars, loadVars,
                   unitVars, enrichVars, assetVars,
                   statusVars, datesVars, buildVars, coordVars, current_year,
                   tables>>

NextPipeline == ScrapeAndWrite \/ Unify

SpecPipeline == InitPipeline /\ [][NextPipeline]_vars

(***************************************************************************)
(* Claims about compute_status (checked under SpecStatus).                 *)
(***************************************************************************)
\* The argument parsed as a date.
Present(arg) == arg.kind = "iso"

InActiveWindow ==
    /\ Present(cs_start) /\ Present(cs_end)
    /\ cs_start.day <= today /\ today <= cs_end.day

InUpcomingWindow ==
    /\ Present(cs_start)
    /\ today < cs_start.day /\ cs_start.day <= today + 30

InClosedWindow ==
    /\ Present(cs_end)
    /\ cs_end.day < today /\ cs_end.day > today - 30

\* C1: compute_status returns "active" if and only if both bounds are present
\* and start <= today <= end; an input in the active window is never
\* classified upcoming, closed or unknown.
C1_ActiveIff ==
    pc = "done" =>
        /\ (comment_status = "active") <=> InActiveWindow
        /\ InActiveWindow => comment_status \notin {"upcoming", "closed", "unknown"}

\* C1 witness: a record whose window opens today is reported active.
C1_Witness ==
    /\ pc = "done"
    /\ comment_status = "active"
    /\ Present(cs_start) /\ cs_start.day = today
    /\ Present(cs_end) /\ cs_end.day = today + 10

C4_UnknownOtherwise ==
    pc = "done" =>
        /\ comment_status \in {"active", "upcoming", "closed", "unknown"}
        /\ (comment_status = "unknown")
               <=> ~(InActiveWindow \/ InUpcomingWindow \/ InClosedWindow)
        /\ (~Present(cs_start) /\ ~Present(cs_end)) => comment_status = "unknown"

\* C4 witness: both bounds present but outside every window gives "unknown".
C4_Witness ==
    /\ pc = "done"
    /\ comment_status = "unknown"
    /\ Present(cs_start) /\ cs_start.day = today + 31
    /\ Present(cs_end) /\ cs_end.day = today + 32

(***************************************************************************)
(* Claims about parse_dates_from_text (checked under SpecDates).  They are *)
(* stated on the positions of the text, not on the clause list the         *)
(* function builds.                                                        *)
(***************************************************************************)
Positions == 1..Len(text)

\* Position q is the first token of a clause.
IsClauseStart(q) ==
    /\ q \in Positions
    /\ q = 1 \/ (text[q - 1].w = "." /\ text[q].w # ".")

\* The first position of the clause that holds position p.
ClauseStartOf(p) ==
    CHOOSE q \in 1..p : IsClauseStart(q) /\ \A r \in (q + 1)..p : ~IsClauseStart(r)

\* The positions of the clause that starts at q: up to the next clause start.
ClauseAt(q) ==
    {p \in Positions : p >= q /\ \A r \in (q + 1)..p : ~IsClauseStart(r)}

\* The date at position p is within [2000, current_year + 2].
ValidDateAt(p) ==
    /\ text[p].w = "date"
    /\ text[p].y >= 2000 /\ text[p].y <= current_year + 2

IsoAt(p) == <<text[p].y, text[p].m, text[p].d>>

ValidDatesIn(q) == {p \in ClauseAt(q) : ValidDateAt(p)}

HasKeyword(q) ==
    \E p \in ClauseAt(q) : text[p].w \in {"comments", "scoping", "due by", "are due"}

HasClosingWord(q) ==
    \E p \in ClauseAt(q) :
        text[p].w \in {"due by", "are due", "by", "must be postmarked by"}

\* "comments" + phrase + date starts at position p.
ExplicitPhraseAt(p) ==
    /\ p + 2 \in Positions
    /\ text[p].w = "comments"
    /\ text[p + 1].w \in {"are due", "due by", "must be postmarked by"}
    /\ text[p + 2].w = "date"

\* The explicit phrase at p is the leftmost one of its clause.
LeftmostExplicitAt(p) ==
    /\ ExplicitPhraseAt(p)
    /\ \A q \in ClauseStartOf(p)..(p - 1) : ~ExplicitPhraseAt(q)

\* The explicit phrase at p is the one the result is taken from.
ExplicitWinnerAt(p) ==
    /\ LeftmostExplicitAt(p) /\ ValidDateAt(p + 2)
    /\ \A q \in 1..(p - 1) : LeftmostExplicitAt(q) => ~ValidDateAt(q + 2)

NoExplicitWinner == \A p \in Positions : ~ExplicitWinnerAt(p)

\* The clause at q yields a candidate in the generic scan.
YieldsCandidate(q) ==
    /\ IsClauseStart(q) /\ HasKeyword(q)
    /\ \/ Cardinality(ValidDatesIn(q)) >= 2
       \/ Cardinality(ValidDatesIn(q)) = 1 /\ HasClosingWord(q)

LenAt(q) == ClauseLen([i \in 1..Cardinality(ClauseAt(q)) |-> text[q + i - 1]])

\* The clause at q is the shortest that yields a candidate, the first on ties.
ShortestCandidateAt(q) ==
    /\ YieldsCandidate(q)
    /\ \A r \in Positions :
           YieldsCandidate(r) =>
               \/ LenAt(r) > LenAt(q)
               \/ LenAt(r) = LenAt(q) /\ r >= q

\* Calendar order of the dates at positions i and j.
NotAfter(i, j) ==
    \/ text[i].y < text[j].y
    \/ text[i].y = text[j].y /\ text[i].m < text[j].m
    \/ text[i].y = text[j].y /\ text[i].m = text[j].m /\ text[i].d <= text[j].d

\* C5 as stated: for all text containing "due by <date>" (with or without
\* "comments" before it, the date within the year bounds) in a
\* keyword-relevant clause, the result is (None, that date).
C5_DueByPhraseWins ==
    pc = "done" =>
        \A p \in Positions :
            (p + 1 \in Positions /\ text[p].w = "due by" /\ ValidDateAt(p + 1))
                => /\ window[1] = None
                   /\ \E r \in Positions :
                          /\ r + 1 \in Positions
                          /\ text[r].w = "due by" /\ ValidDateAt(r + 1)
                          /\ window[2] = IsoAt(r + 1)

\* C5 as amended: when a clause's leftmost phrase "comment(s)" + ("are due" |
\* "due by" | "must be postmarked by") + date carries a date within the year
\* bounds, the result is (None, that date) for the first such clause of the
\* text, whatever dates and ranges the generic scan would find.
C5_ExplicitPhraseWins ==
    pc = "done" =>
        \A p \in Positions :
            ExplicitWinnerAt(p) => window = <<None, IsoAt(p + 2)>>

\* C5 witness: the explicit date is returned alone although the text holds
\* another valid date that the generic scan would have used.
C5_Witness ==
    /\ pc = "done"
    /\ \E p \in Positions :
           /\ ExplicitWinnerAt(p)
           /\ window = <<None, IsoAt(p + 2)>>
           /\ \E r \in Positions : r # p + 2 /\ ValidDateAt(r) /\ IsoAt(r) # IsoAt(p + 2)

\* C6 as stated: for all text with two valid dates in one keyword-relevant
\* clause, the result is (earlier, later).
C6_TwoDatesOrdered ==
    pc = "done" =>
        \A q \in Positions :
            (IsClauseStart(q) /\ HasKeyword(q) /\ Cardinality(ValidDatesIn(q)) = 2)
                => \E i, j \in ValidDatesIn(q) :
                       i # j /\ NotAfter(i, j) /\ window = <<IsoAt(i), IsoAt(j)>>

\* C6 as amended: when no explicit deadline phrase matches and the shortest
\* candidate clause (the first on ties) holds two valid dates, the result is
\* (earlier, later) whatever the order of the two dates in the text.
C6_TwoDatesOrderedInChosenClause ==
    pc = "done" =>
        \A q \in Positions :
            (IsClauseStart(q) /\ Cardinality(ValidDatesIn(q)) = 2
                /\ NoExplicitWinner /\ ShortestCandidateAt(q))
                => \E i, j \in ValidDatesIn(q) :
                       i # j /\ NotAfter(i, j) /\ window = <<IsoAt(i), IsoAt(j)>>

\* C6 witness: the later date comes first in the text and is returned as end.
C6_Witness ==
    /\ pc = "done"
    /\ NoExplicitWinner
    /\ \E q \in Positions :
           /\ ShortestCandidateAt(q)
           /\ \E i, j \in ValidDatesIn(q) :
                  /\ i < j /\ ~NotAfter(i, j)
                  /\ ValidDatesIn(q) = {i, j}
                  /\ window = <<IsoAt(j), IsoAt(i)>>

\* C7: a text in which no clause contains a participation keyword gives
\* (None, None) even if it holds valid dates; so do the empty text and a text
\* without any date.
C7_NoKeywordNoWindow ==
    pc = "done" =>
        ((\/ \A p \in Positions : text[p].w \notin {"comments", "scoping", "due by", "are due"}
          \/ text = <<>>
          \/ \A p \in Positions : text[p].w # "date")
            => window = <<None, None>>)

\* C7 witness: two valid dates and no keyword, and nothing is returned.
C7_Witness ==
    /\ pc = "done"
    /\ \A p \in Positions : text[p].w \notin {"comments", "scoping", "due by", "are due"}
    /\ \E i, j \in Positions : i # j /\ ValidDateAt(i) /\ ValidDateAt(j)
    /\ window = <<None, None>>

\* C8: no returned date, start or end, has a year outside
\* [2000, current_year + 2]; a date outside the bounds does not count, so a
\* start is only returned from a clause with two or more dates within them.
C8_YearBounds ==
    pc = "done" =>
        /\ \A k \in 1..2 :
               window[k] # None =>
                   window[k][1] >= 2000 /\ window[k][1] <= current_year + 2
        /\ window[1] # None =>
               \E q \in Positions :
                   /\ IsClauseStart(q) /\ HasKeyword(q)
                   /\ Cardinality(ValidDatesIn(q)) >= 2
                   /\ \E i, j \in ValidDatesIn(q) :
                          window = <<IsoAt(i), IsoAt(j)>>

\* C8 witness: a clause with a closing word, one date out of bounds and one
\* within gives an end-only window with the date that is within.
C8_Witness ==
    /\ pc = "done"
    /\ NoExplicitWinner
    /\ \E q \in Positions :
           /\ ShortestCandidateAt(q)
           /\ \E i \in ClauseAt(q) : text[i].w = "date" /\ ~ValidDateAt(i)
           /\ \E j \in ClauseAt(q) : ValidDatesIn(q) = {j} /\ window = <<None, IsoAt(j)>>

(***************************************************************************)
(* Claims about _scrape_project_from_texts (checked under SpecBuild).      *)
(***************************************************************************)
\* The tab holds an explicit due date of Sep 15, in either phrasing.
HoldsDueDate(tab) ==
    /\ tab_texts[tab].present
    /\ tab_texts[tab].txt \in
           { <<COMMENTS, ARE_DUE, WORD_BY, SEP_15>>,
             <<COMMENTS, ARE_DUE, WORD_BY, SEP_15, DOT>>,
             <<COMMENTS, DUE_BY, SEP_15>>,
             <<COMMENTS, DUE_BY, SEP_15, DOT>> }

\* The tab holds the range Aug 20 - Sep 10.
HoldsRange(tab) ==
    /\ tab_texts[tab].present
    /\ tab_texts[tab].txt \in
           { <<SCOPING, AUG_20, THROUGH, SEP_10>>,
             <<SCOPING, AUG_20, THROUGH, SEP_10, DOT>> }

\* Some tab has a non-empty text.
TextGathered ==
    \E i \in 1..Len(PARTICIPATION_PATHS) :
        /\ tab_texts[PARTICIPATION_PATHS[i]].present
        /\ tab_texts[PARTICIPATION_PATHS[i]].txt # <<>>

\* C9: when tab 570 holds a range (Aug 20 - Sep 10) and tab 510 holds an
\* explicit due date (Sep 15), the record's comment_start_date is the start
\* of the 570 range and its comment_end_date is the explicit 510 date.
C9_TabsMergedIntoOneWindow ==
    (pc = "done" /\ HoldsDueDate("510") /\ HoldsRange("570")) =>
        /\ record.comment_start_date = <<2025, 8, 20>>
        /\ record.comment_end_date = <<2025, 9, 15>>

\* C10: scrape_confidence is 0.8 if and only if a window bound was found,
\* otherwise 0.5 if and only if some non-empty tab text was gathered,
\* otherwise 0.2; it is one of the three values, within [0, 1], and ordered
\* found dates > found text > found nothing.
C10_ConfidenceLevels ==
    pc = "done" =>
        LET found == record.comment_start_date # None
                     \/ record.comment_end_date # None
            conf == record.scrape_confidence
        IN  /\ (conf = 8) <=> found
            /\ (conf = 5) <=> (~found /\ TextGathered)
            /\ (conf = 2) <=> (~found /\ ~TextGathered)
            /\ conf \in {8, 5, 2}
            /\ 0 <= conf /\ conf <= 10
            /\ (found /\ TextGathered) => conf > 5

\* C10 witness: only an end date was found, from one tab, and the
\* confidence is 0.8.
C10_Witness ==
    /\ pc = "done"
    /\ record.comment_start_date = None
    /\ record.comment_end_date # None
    /\ record.scrape_confidence = 8
    /\ ~tab_texts["510"].present

\* C10, second case reached: text without dates gives 0.5.
C10_TextOnlyReached ==
    /\ pc = "done"
    /\ TextGathered
    /\ record.comment_start_date = None /\ record.comment_end_date = None
    /\ record.scrape_confidence = 5

\* The tab has a non-empty text.
HasText(tab) == tab_texts[tab].present /\ tab_texts[tab].txt # <<>>

\* The i-th tab of the priority order is the first one with non-empty text.
FirstWithText(i) ==
    /\ HasText(PARTICIPATION_PATHS[i])
    /\ \A j \in 1..(i - 1) : ~HasText(PARTICIPATION_PATHS[j])

\* C11: source_url is the URL of the first tab, in the order 510, 570, 565,
\* that has non-empty text (so it ends in /510 whenever tab 510 has text);
\* if no tab has text it is the default URL of the project ending in /510.
C11_SourceUrlFirstTab ==
    pc = "done" =>
        LET pid == record.project_id[2]
        IN  /\ \A i \in 1..Len(PARTICIPATION_PATHS) :
                   FirstWithText(i) =>
                       record.source_url = ProjectUrl(pid, PARTICIPATION_PATHS[i])
            /\ HasText("510") => record.source_url.tab = "510"
            /\ ~TextGathered => record.source_url = ProjectUrl(pid, "510")

\* C11 witness: tab 510 is there but empty, tabs 570 and 565 both have text,
\* and source_url is the URL of tab 570.
C11_Witness ==
    /\ pc = "done"
    /\ tab_texts["510"] = TextOf(<<>>)
    /\ HasText("570") /\ HasText("565")
    /\ record.source_url = ProjectUrl(record.project_id[2], "570")

\* C12: for every tab_texts mapping a record is built; a tab whose text is
\* missing or empty is recorded as absent (false) in notes_tabs and adds
\* nothing to the combined text, and the texts of the available tabs are
\* concatenated in the order 510, 570, 565.
C12_MissingOrEmptyTabAbsent ==
    pc = "done" =>
        /\ Len(record.notes_tabs) = Len(PARTICIPATION_PATHS)
        /\ \A i \in 1..Len(PARTICIPATION_PATHS) :
               ~HasText(PARTICIPATION_PATHS[i]) =>
                   record.notes_tabs[i] = <<PARTICIPATION_PATHS[i], FALSE>>
        /\ record.description =
               tab_texts["510"].txt \o tab_texts["570"].txt \o tab_texts["565"].txt

\* C12, the part that holds of the code: notes_tabs records a tab as absent
\* exactly when its text is None, and the combined text is the texts of
\* the tabs in the order 510, 570, 565, an empty text adding nothing.
C12_NoneTabAbsent ==
    pc = "done" =>
        /\ Len(record.notes_tabs) = Len(PARTICIPATION_PATHS)
        /\ \A i \in 1..Len(PARTICIPATION_PATHS) :
               record.notes_tabs[i] =
                   <<PARTICIPATION_PATHS[i], tab_texts[PARTICIPATION_PATHS[i]].present>>
        /\ record.description =
               tab_texts["510"].txt \o tab_texts["570"].txt \o tab_texts["565"].txt

(***************************************************************************)
(* Claims about the coordinates (checked under SpecCoords).                *)
(***************************************************************************)
\* Both strings of the pair are numbers.
NumericPair == FloatOf(coord_in.lon_str) # {} /\ FloatOf(coord_in.lat_str) # {}

PairX == CHOOSE v \in FloatOf(coord_in.lon_str) : TRUE
PairY == CHOOSE v \in FloatOf(coord_in.lat_str) : TRUE

\* -180 <= x <= 180 and -90 <= y <= 90
InDegreeRanges ==
    /\ FltLE(Flt(-18000), PairX) /\ FltLE(PairX, Flt(18000))
    /\ FltLE(Flt(-9000), PairY) /\ FltLE(PairY, Flt(9000))

\* |x| > 1000 or |y| > 1000
Over1000 ==
    \/ FltGT(PairX, Flt(100000)) \/ FltGT(Flt(-100000), PairX)
    \/ FltGT(PairY, Flt(100000)) \/ FltGT(Flt(-100000), PairY)

\* The row came out with exactly these coordinates.
RowHas(lon, lat) ==
    /\ Len(coord_out.rows) = 1
    /\ coord_out.rows[1].longitude = {lon}
    /\ coord_out.rows[1].latitude = {lat}

\* A float within [-180, 180], and one within [-90, 90].
ValidLon(v) == v.big = 0 /\ -18000 <= v.n /\ v.n <= 18000
ValidLat(v) == v.big = 0 /\ -9000 <= v.n /\ v.n <= 9000

\* C13: for every numeric pair (x, y) of a BLM row: within the degree
\* ranges it is classified geographic and kept unchanged; otherwise, if
\* |x| > 1000 or |y| > 1000, it is classified projected and converted;
\* otherwise it is unknown and the row gets no coordinates, not the raw
\* values.
C13_ClassificationRule ==
    (pc = "done" /\ coord_in.source = "BLM" /\ NumericPair) =>
        /\ InDegreeRanges => (~coord_out.is_3857 /\ RowHas(PairX, PairY))
        /\ (~InDegreeRanges /\ Over1000) =>
               /\ coord_out.is_3857
               /\ ~coord_out.converted.raised =>
                      RowHas(coord_out.converted.lon, coord_out.converted.lat)
        /\ (~InDegreeRanges /\ ~Over1000) =>
               /\ ~coord_out.is_3857
               /\ \A i \in 1..Len(coord_out.rows) :
                      /\ coord_out.rows[i].longitude # {PairX}
                      /\ coord_out.rows[i].latitude # {PairY}

\* C13, the part that holds of the code: the first two cases, and a pair in
\* neither range is kept as it is.
C13_RawValuesKept ==
    (pc = "done" /\ coord_in.source = "BLM" /\ NumericPair) =>
        /\ InDegreeRanges => (~coord_out.is_3857 /\ RowHas(PairX, PairY))
        /\ (~InDegreeRanges /\ Over1000) =>
               /\ coord_out.is_3857
               /\ ~coord_out.converted.raised =>
                      RowHas(coord_out.converted.lon, coord_out.converted.lat)
        /\ (~InDegreeRanges /\ ~Over1000) =>
               (~coord_out.is_3857 /\ RowHas(PairX, PairY))

\* C14: for every projected input (x, y) merc3857_to_wgs84 returns a pair
\* with -180 <= lon <= 180 and -90 <= lat <= 90; (-11686000, 4808000) is
\* classified projected and converts to such a pair, and (-104.9, 39.7) is
\* classified geographic and left unchanged.
C14_ConversionWithinBounds ==
    /\ (pc \in {"converted", "done"} /\ coord_out.is_3857) =>
           /\ ~coord_out.converted.raised
           /\ ValidLon(coord_out.converted.lon)
           /\ ValidLat(coord_out.converted.lat)
    /\ (pc = "done" /\ coord_in.source = "BLM"
           /\ coord_in.lon_str = NumCell(-1168600000)
           /\ coord_in.lat_str = NumCell(480800000)) =>
           (coord_out.is_3857 /\ ~coord_out.converted.raised)
    /\ (pc = "done" /\ coord_in.source = "BLM"
           /\ coord_in.lon_str = NumCell(-10490)
           /\ coord_in.lat_str = NumCell(3970)) =>
           (~coord_out.is_3857 /\ RowHas(Flt(-10490), Flt(3970)))

\* C14, the part that holds of the code: a conversion that returns is
\* within the bounds, and it returns unless y is beyond the range of exp.
C14_WithinBoundsUnlessOverflow ==
    (pc \in {"converted", "done"} /\ coord_out.is_3857) =>
        /\ coord_out.converted.raised <=> PairY.big = 1
        /\ ~coord_out.converted.raised =>
               /\ ValidLon(coord_out.converted.lon)
               /\ ValidLat(coord_out.converted.lat)

(***************************************************************************)
(* Claims about main and map_rows_to_final (checked under SpecUnify).      *)
(***************************************************************************)
\* The coordinate cells a row is read from, under either set of names.
RowLon(r) == first_nonempty(r, <<"longitude", "Longitude", "X">>)
RowLat(r) == first_nonempty(r, <<"latitude", "Latitude", "Y">>)

\* A coordinate cell of the row holds a text that is not a number.
MalformedRow(r) == RowLon(r).kind = "text" \/ RowLat(r).kind = "text"

\* The inputs without row i of table t.
WithoutRow(t, i) ==
    [tables EXCEPT ![t].rows = SubSeq(@, 1, i - 1) \o SubSeq(@, i + 1, Len(@))]

\* The number of rows of all input tables.
TotalRows ==
    LET F[n \in 0..Len(tables)] ==
            IF n = 0 THEN 0 ELSE F[n - 1] + Len(tables[n].rows)
    IN  F[Len(tables)]

C16_RowCountIsSum ==
    pc = "done" =>
        /\ Len(all_rows) = TotalRows
        /\ \A k \in 1..Len(all_rows) :
               DOMAIN all_rows[k] =
                   {"project_name", "source", "start_date", "end_date", "notes",
                    "longitude", "latitude"}

\* C16, the part that holds of the code: rows are emitted in input order,
\* one for each input row that has both coordinates, without deduplication.
C16_RowsWithCoordinatesKept ==
    pc = "done" =>
        /\ Len(all_rows) <= TotalRows
        /\ \A k \in 1..Len(all_rows) :
               /\ DOMAIN all_rows[k] =
                      {"project_name", "source", "start_date", "end_date", "notes",
                       "longitude", "latitude"}
               /\ all_rows[k].longitude # {} /\ all_rows[k].latitude # {}

(***************************************************************************)
(* Claims about to_geojson (checked under SpecExport).                     *)
(***************************************************************************)
\* C17: the export has exactly one Point feature per row, in row order,
\* with coordinates [longitude, latitude], or the placeholder [0, 0] when
\* the row has no coordinates, and with the non-geometry columns of the
\* row, unchanged, as properties.
C17_OneFeaturePerRow ==
    pc = "done" =>
        /\ ~geojson.raised
        /\ Len(geojson.features) = Len(all_rows)
        /\ \A i \in 1..Len(all_rows) :
               LET r == all_rows[i]
                   f == geojson.features[i]
               IN  /\ f.geometry.type = "Point"
                   /\ f.geometry.coordinates =
                          IF r.longitude = {} \/ r.latitude = {}
                          THEN <<Flt(0), Flt(0)>>
                          ELSE <<CHOOSE v \in r.longitude : TRUE,
                                 CHOOSE v \in r.latitude : TRUE>>
                   /\ f.properties =
                          [project_name |-> r.project_name, source |-> r.source,
                           start_date |-> r.start_date, end_date |-> r.end_date,
                           notes |-> r.notes]

\* C17, the part that holds of the code: when every row has coordinates
\* the export has one feature per row, in order, with [longitude, latitude]
\* and the row's other columns; a row without coordinates makes it raise.
C17_FeaturesWhenCoordinates ==
    pc = "done" =>
        LET unresolved == \E i \in 1..Len(all_rows) :
                              all_rows[i].longitude = {} \/ all_rows[i].latitude = {}
        IN  /\ geojson.raised <=> unresolved
            /\ ~unresolved =>
                   /\ Len(geojson.features) = Len(all_rows)
                   /\ \A i \in 1..Len(all_rows) :
                          geojson.features[i].geometry.coordinates =
                              <<CHOOSE v \in all_rows[i].longitude : TRUE,
                                CHOOSE v \in all_rows[i].latitude : TRUE>>

(***************************************************************************)
(* Claims about normalize_unit_text (checked under SpecUnits).             *)
(***************************************************************************)
\* The positions of unit_in where a non-empty comma-separated segment starts.
SegmentStarts ==
    {i \in 1..Len(unit_in) :
        unit_in[i] # COMMA /\ (i = 1 \/ unit_in[i - 1] = COMMA)}

\* The last position of the segment that starts at i.
SegmentEnd(i) ==
    CHOOSE j \in i..Len(unit_in) :
        /\ \A k \in i..j : unit_in[k] # COMMA
        /\ j = Len(unit_in) \/ unit_in[j + 1] = COMMA

\* The start of the k-th non-empty segment.
KthStart(k) ==
    CHOOSE i \in SegmentStarts :
        Cardinality({j \in SegmentStarts : j < i}) = k - 1

\* What is left of the segment starting at i once the text up to its last "/"
\* and the punctuation at its end are dropped.
KeptPart(i) ==
    LET slashes == {j \in i..SegmentEnd(i) : unit_in[j] = SLASH}
        from == IF slashes = {} THEN i
                ELSE 1 + CHOOSE j \in slashes : \A h \in slashes : h <= j
        stops == {j \in from..SegmentEnd(i) : unit_in[j] # PERIOD}
    IN  IF stops = {} THEN <<>>
        ELSE SubSeq(unit_in, from, CHOOSE j \in stops : \A h \in stops : h <= j)

IsAliasTarget(c) == \E a \in ALIASES : c = a.target

EndsWithRangerDistrict(c) ==
    /\ Len(c) >= 2
    /\ c[Len(c) - 1].lc = "ranger"
    /\ c[Len(c)].lc = "district"

MatchedFeatures(i) ==
    {d \in 1..Len(districts) :
        \E k \in 1..Len(normalize_unit_text(csv_rows[i].unit)) :
            districts[d].unit_lc
                = LowerText(Strip(normalize_unit_text(csv_rows[i].unit)[k]))}

\* C19: geometry enrichment never changes a longitude or latitude that the
\* input row already has, whether zero, one or several districts match; when
\* no candidate matches, the row stays without the coordinates it lacks, its
\* matched_units is empty, and the remaining rows are still processed.
C19_ExistingCoordinatesKept ==
    pc = "done" =>
        /\ Len(out_df) = Len(csv_rows)
        /\ \A i \in 1..Len(csv_rows) :
              /\ out_df[i].unit = csv_rows[i].unit
              /\ csv_rows[i].longitude # {}
                    => out_df[i].longitude = csv_rows[i].longitude
              /\ csv_rows[i].latitude # {}
                    => out_df[i].latitude = csv_rows[i].latitude
              /\ MatchedFeatures(i) = {}
                    => /\ out_df[i].longitude = csv_rows[i].longitude
                       /\ out_df[i].latitude = csv_rows[i].latitude
                       /\ out_df[i].matched_units = <<>>
              /\ MatchedFeatures(i) # {}
                    => /\ out_df[i].longitude # {}
                       /\ out_df[i].latitude # {}
                       /\ Len(out_df[i].matched_units)
                             >= Cardinality(MatchedFeatures(i))

\* A row without coordinates that matches nothing is followed by a row with
\* coordinates that matches several features, whose centroid would differ.
C19_Witness ==
    /\ pc = "done"
    /\ Len(csv_rows) = 2
    /\ MatchedFeatures(1) = {}
    /\ csv_rows[1].longitude = {}
    /\ out_df[1].longitude = {}
    /\ Cardinality(MatchedFeatures(2)) >= 2
    /\ csv_rows[2].longitude # {}
    /\ out_df[2].longitude = csv_rows[2].longitude
    /\ out_df[2].longitude
          # {Centroid(unary_union(CollectMatches(
                 normalize_unit_text(csv_rows[2].unit), districts)), 1)}

(***************************************************************************)
(* Claims about build_map_assets.main (checked under SpecAssets).          *)
(***************************************************************************)
\* The value a JSON object text gives to a key: that of the last member with
\* the key; the empty set without such a member.
ValueOf(s, key) ==
    LET at == {i \in 1..Len(s.members) : s.members[i].key = key}
    IN  IF at = {} THEN {}
        ELSE {s.members[CHOOSE i \in at : \A j \in at : j <= i].value}

\* Two JSON texts have equal content: the same kind and, for objects, the
\* same keys with the same values.
SameJson(a, b) ==
    /\ a.kind = b.kind
    /\ \A k \in MemberKeys : ValueOf(a, k) = ValueOf(b, k)
    /\ \A i \in 1..Len(a.members) : a.members[i].key \in MemberKeys
    /\ \A i \in 1..Len(b.members) : b.members[i].key \in MemberKeys

\* The input is a JSON object with type "FeatureCollection".
InputIsFeatureCollection ==
    /\ in_file.kind = "object"
    /\ ValueOf(in_file, "type") = {JsonString("FeatureCollection")}

\* C20 as stated: main writes an output file whose JSON content equals the
\* input exactly when the input is a JSON object with type
\* "FeatureCollection"; for every other input it terminates with SystemExit
\* and writes no output file.
C20_PassThroughOrSystemExit ==
    pc # "ready" =>
        IF InputIsFeatureCollection
        THEN /\ pc = "done"
             /\ out_file # NoFile
             /\ SameJson(out_file, in_file)
        ELSE /\ pc = "SystemExit"
             /\ out_file = NoFile

\* C20 amended: main writes an output file whose JSON content equals the
\* input exactly when the input is a JSON object with type
\* "FeatureCollection"; for every other input that is JSON it terminates with
\* SystemExit, for an input that is not JSON with the decoder's
\* JSONDecodeError, and in both cases it writes no output file.
C20_PassThroughOrRejected ==
    pc # "ready" =>
        IF InputIsFeatureCollection
        THEN /\ pc = "done"
             /\ out_file # NoFile
             /\ SameJson(out_file, in_file)
        ELSE /\ pc = IF in_file.kind = "invalid" THEN "JSONDecodeError"
                     ELSE "SystemExit"
             /\ out_file = NoFile

\* An input that is not JSON has been rejected by the decoder.
C20_Witness ==
    /\ pc = "JSONDecodeError"
    /\ in_file.kind = "invalid"
    /\ out_file = NoFile

(***************************************************************************)
(* Claims about fetch_all_participation_text_browser (checked under        *)
(* SpecFetch).                                                             *)
(***************************************************************************)
\* The fetch of a tab failed: goto raised, or no call returned the text.
FetchFailed(tab) ==
    \/ site[tab].goto = "error"
    \/ site[tab].inner = {} /\ site[tab].eval = {}

\* The text the browser delivered for a tab whose fetch did not fail.
FetchedText(tab) ==
    IF site[tab].inner # {} THEN CHOOSE t \in site[tab].inner : TRUE
    ELSE CHOOSE t \in site[tab].eval : TRUE

\* C21: fetching the participation tabs of a project visits 510, 570, 565 in
\* that order and returns a mapping with an entry for each of the three tabs:
\* a tab whose fetch failed maps to None and a fetched tab maps to its text.
\* A failure on a tab never prevents the later tabs from being fetched nor
\* aborts the run.
C21_EntryForEveryTab ==
    pc = "done" =>
        /\ visited = PARTICIPATION_PATHS
        /\ \A tab \in Range(PARTICIPATION_PATHS) :
              /\ tab \in DOMAIN out_tabs
              /\ IF FetchFailed(tab) THEN out_tabs[tab] = NoText
                 ELSE out_tabs[tab] = TextOf(FetchedText(tab))

\* What holds of the code: all three tabs are visited in order whatever
\* fails, the record is built, a tab whose fetch failed or whose text is empty
\* has no entry, and a tab with text maps to that text.
C21_FailedTabHasNoEntry ==
    pc = "done" =>
        /\ visited = PARTICIPATION_PATHS
        /\ record.project_id = <<"BLM-", "2029163">>
        /\ Len(record.notes_tabs) = Len(PARTICIPATION_PATHS)
        /\ \A tab \in Range(PARTICIPATION_PATHS) :
              IF FetchFailed(tab) \/ FetchedText(tab) = <<>>
              THEN tab \notin DOMAIN out_tabs
              ELSE /\ tab \in DOMAIN out_tabs
                   /\ out_tabs[tab] = TextOf(FetchedText(tab))

(***************************************************************************)
(* Further claims about parse_dates_from_text (checked under SpecDates).   *)
(***************************************************************************)
\* The clause at q is relevant and holds exactly one valid date.
SingleDateClause(q) ==
    IsClauseStart(q) /\ HasKeyword(q) /\ Cardinality(ValidDatesIn(q)) = 1

\* The position of the valid date of a clause that has exactly one.
TheDateOf(q) == CHOOSE p \in ValidDatesIn(q) : TRUE

\* Every valid date of the text is in the clause at q.
OnlyDatedClause(q) ==
    \A p \in Positions : ValidDateAt(p) => p \in ClauseAt(q)

\* C22: in the generic scan, a relevant clause yielding exactly one valid
\* date contributes the end-only candidate (None, date) if and only if the
\* clause contains a closing-style word; a single date in a clause without
\* such a word contributes no candidate, so a text whose only date is of that
\* kind yields (None, None).
C22_SingleDateNeedsClosingWord ==
    pc = "done" =>
        \A q \in Positions :
            SingleDateClause(q) =>
                /\ OnlyDatedClause(q)
                      => window = IF HasClosingWord(q)
                                  THEN <<None, IsoAt(TheDateOf(q))>>
                                  ELSE <<None, None>>
                /\ (NoExplicitWinner /\ ShortestCandidateAt(q))
                      => /\ HasClosingWord(q)
                         /\ window = <<None, IsoAt(TheDateOf(q))>>
                /\ (NoExplicitWinner /\ ~HasClosingWord(q))
                      => \/ window = <<None, None>>
                         \/ \E r \in Positions :
                                /\ r # q
                                /\ ShortestCandidateAt(r)
                                /\ window[2] \in {IsoAt(p) : p \in ValidDatesIn(r)}

\* Two single-date clauses: the shorter one has no closing-style word and
\* contributes nothing, the longer one has one and gives the end.
C22_Witness ==
    /\ pc = "done"
    /\ \E q, r \in Positions :
           /\ SingleDateClause(q) /\ ~HasClosingWord(q)
           /\ SingleDateClause(r) /\ HasClosingWord(r)
           /\ LenAt(q) < LenAt(r)
           /\ IsoAt(TheDateOf(q)) # IsoAt(TheDateOf(r))
           /\ window = <<None, IsoAt(TheDateOf(r))>>

\* The earliest and the latest of the valid dates of the clause at q.
EarliestIn(q) ==
    CHOOSE i \in ValidDatesIn(q) : \A j \in ValidDatesIn(q) : NotAfter(i, j)

LatestIn(q) ==
    CHOOSE i \in ValidDatesIn(q) : \A j \in ValidDatesIn(q) : NotAfter(j, i)

\* The candidate window of the clause at q, a clause that yields one.
CandidateAt(q) ==
    IF Cardinality(ValidDatesIn(q)) >= 2
    THEN <<IsoAt(EarliestIn(q)), IsoAt(LatestIn(q))>>
    ELSE <<None, IsoAt(LatestIn(q))>>

\* C23: when relevant clauses produce candidate windows and no explicit
\* deadline phrase matched, the result is the candidate of the shortest
\* clause (by character length), the first in the text among clauses of equal
\* length; the returned pair is always one clause's candidate, never a
\* combination of bounds from different clauses.
C23_ShortestClauseWins ==
    (pc = "done" /\ NoExplicitWinner) =>
        /\ \A q \in Positions :
              ShortestCandidateAt(q) => window = CandidateAt(q)
        /\ window # <<None, None>>
              => \E q \in Positions :
                     YieldsCandidate(q) /\ window = CandidateAt(q)

\* Two clauses with different candidates, the later one shorter and returned;
\* taking the start of one and the end of the other would give another pair.
C23_Witness ==
    /\ pc = "done"
    /\ NoExplicitWinner
    /\ \E q, r \in Positions :
           /\ q < r
           /\ YieldsCandidate(q) /\ YieldsCandidate(r)
           /\ LenAt(r) < LenAt(q)
           /\ CandidateAt(q)[1] # None
           /\ CandidateAt(q)[2] # CandidateAt(r)[2]
           /\ window = CandidateAt(r)

(***************************************************************************)
(* Claims about extract_date_range (checked under SpecUsfs).               *)
(***************************************************************************)
\* The distinct dates the text yields.
DistinctDates ==
    {usfs_text[i].day :
        i \in {j \in 1..Len(usfs_text) : usfs_text[j].kind \in {"long", "short"}}}

\* C24: when the text yields exactly one distinct date, a past date is
\* treated as an end (comment_end set, comment_start absent) and a future
\* date as a start (comment_start set, comment_end absent); exactly one of
\* the two bounds is set in that case, for every value of today.
C24_SingleDatePastOrFuture ==
    pc = "done" =>
        \A d \in DistinctDates :
            DistinctDates = {d} =>
                /\ d < usfs_today
                      => /\ usfs_dates.comment_end = IsoDateArg(d)
                         /\ usfs_dates.comment_start = NoDateArg
                /\ d > usfs_today
                      => /\ usfs_dates.comment_start = IsoDateArg(d)
                         /\ usfs_dates.comment_end = NoDateArg
                /\ (usfs_dates.comment_start = NoDateArg)
                      # (usfs_dates.comment_end = NoDateArg)
                /\ IsoDateArg(d) \in
                      {usfs_dates.comment_start, usfs_dates.comment_end}

\* The same past date written twice, as a long and as a short date, is one
\* distinct date and becomes the end.
C24_Witness ==
    /\ pc = "done"
    /\ \E i, j \in 1..Len(usfs_text) :
           /\ usfs_text[i].kind = "long"
           /\ usfs_text[j].kind = "short"
    /\ \E d \in DistinctDates : DistinctDates = {d} /\ d < usfs_today
    /\ usfs_dates.comment_start = NoDateArg
    /\ usfs_dates.comment_end # NoDateArg

(***************************************************************************)
(* Claims about load_ranger_districts (checked under SpecLoadFair).        *)
(***************************************************************************)
LoadEnded == pc \in {"done", "RuntimeError"}

\* In the paging loop every page so far was full and the offset advanced by
\* the page size for each of them.
PagingInStep ==
    pc = "paging" =>
        /\ offset = Len(chunks) * service.maxRecordCount
        /\ \A k \in 1..Len(chunks) : Len(chunks[k]) = service.maxRecordCount

\* The table returned holds each feature of the service once, in order.
TableComplete ==
    pc = "done" =>
        /\ Len(gdf_all) = Len(service.features)
        /\ \A i \in 1..Len(gdf_all) :
              /\ gdf_all[i].geometry = service.features[i].oid
              /\ gdf_all[i].unit_name = service.features[i].name

\* Without any feature the load ends with an error; with features (and the
\* name field) it does not.
AbortsWhenEmpty ==
    LoadEnded =>
        /\ service.features = <<>> => pc = "RuntimeError"
        /\ (service.features # <<>> /\ NameField(service) # {}) => pc = "done"

\* C25: when the district service supports pagination, holds N >= 1 features
\* and reports page size max_count >= 1, the paging loop terminates (it stops
\* at the first page that is empty or shorter than max_count, advancing the
\* offset by exactly max_count per page) and the table returned holds each of
\* the N features exactly once, in service order; when no feature at all is
\* retrieved the load aborts with an error instead of returning an empty
\* table.
C25_PagingTerminatesComplete ==
    /\ <>LoadEnded
    /\ [](PagingInStep /\ TableComplete /\ AbortsWhenEmpty)

\* The features fill two pages exactly, so the loop ends at the empty third
\* page, and the table has been returned.
C25_Witness ==
    /\ pc = "done"
    /\ service.supportsPagination
    /\ Len(service.features) = 2 * service.maxRecordCount
    /\ Len(chunks) = 2
    /\ offset = 2 * service.maxRecordCount
    /\ Len(gdf_all) = Len(service.features)

(***************************************************************************)
(* Further claims about compute_status (checked under SpecStatus).         *)
(***************************************************************************)
\* How many of the three conditions hold.
ConditionsHolding ==
    Cardinality({c \in {"active", "upcoming", "closed"} :
                    \/ c = "active" /\ InActiveWindow
                    \/ c = "upcoming" /\ InUpcomingWindow
                    \/ c = "closed" /\ InClosedWindow})

\* The status follows from the conditions alone, whatever their order.
StatusFromConditions ==
    /\ InActiveWindow => comment_status = "active"
    /\ InUpcomingWindow => comment_status = "upcoming"
    /\ InClosedWindow => comment_status = "closed"

StartAfterEnd ==
    Present(cs_start) /\ Present(cs_end) /\ cs_start.day > cs_end.day

IsoNotAfter(a, b) ==
    \/ a[1] < b[1]
    \/ a[1] = b[1] /\ a[2] < b[2]
    \/ a[1] = b[1] /\ a[2] = b[2] /\ a[3] <= b[3]

\* start <= end for two optional dates of extract_date_range.
BoundsOrdered(s, e) == (Present(s) /\ Present(e)) => s.day <= e.day

\* C27: whenever an extractor returns both a start and an end date,
\* start <= end: for every input text of the BLM parse_dates_from_text and for
\* comment_start/comment_end and expected_comment_start/expected_comment_end
\* of the USFS extract_date_range.
C27_StartNotAfterEnd ==
    pc = "done" =>
        /\ (usfs_today = 0 /\ window[1] # None /\ window[2] # None)
              => IsoNotAfter(window[1], window[2])
        /\ usfs_today # 0
              => /\ BoundsOrdered(usfs_dates.comment_start,
                                  usfs_dates.comment_end)
                 /\ BoundsOrdered(usfs_dates.expected_comment_start,
                                  usfs_dates.expected_comment_end)

\* A SOPA notice whose later date is written first: both pairs are returned
\* and the comment window starts with the earlier date.
C27_Witness ==
    /\ pc = "done"
    /\ usfs_today # 0
    /\ \E i, j \in 1..Len(usfs_text) :
           /\ i < j
           /\ usfs_text[i].kind = "long" /\ usfs_text[j].kind = "long"
           /\ usfs_text[i].day > usfs_text[j].day
           /\ usfs_dates.comment_start = IsoDateArg(usfs_text[j].day)
           /\ usfs_dates.comment_end = IsoDateArg(usfs_text[i].day)
    /\ Present(usfs_dates.expected_comment_start)
    /\ Present(usfs_dates.expected_comment_end)

(***************************************************************************)
(* Further claims about map_rows_to_final (checked under SpecCoords).      *)
(***************************************************************************)
\* C28: every row emitted by map_rows_to_final, for either source and every
\* input coordinate pair, has -180 <= longitude <= 180 and
\* -90 <= latitude <= 90.
C28_RowsWithinDegrees ==
    pc = "done" =>
        \A i \in 1..Len(coord_out.rows) :
            /\ \A v \in coord_out.rows[i].longitude : ValidLon(v)
            /\ \A v \in coord_out.rows[i].latitude : ValidLat(v)

\* What holds of the code: a BLM pair classified as projected is emitted
\* within the bounds or not at all, and every other numeric pair, BLM or
\* USFS, is emitted as it was read.
C28_ProjectedRowsWithinDegrees ==
    (pc = "done" /\ NumericPair) =>
        IF coord_in.source = "BLM" /\ coord_out.is_3857
        THEN \A i \in 1..Len(coord_out.rows) :
                 /\ \A v \in coord_out.rows[i].longitude : ValidLon(v)
                 /\ \A v \in coord_out.rows[i].latitude : ValidLat(v)
        ELSE RowHas(PairX, PairY)

(***************************************************************************)
(* Further claims about compute_centroids_csv (checked under SpecEnrich).  *)
(***************************************************************************)
\* The centroid pair of the union of the districts matched by row i: a set
\* of at most one value per axis, as the cells of the table are.
CentroidOf(i, axis) ==
    LET matches == CollectMatches(normalize_unit_text(csv_rows[i].unit),
                                  districts)
    IN  IF matches # <<>> THEN {Centroid(unary_union(matches), axis)}
        ELSE {}

\* C29: for every row of the enrichment output the (longitude, latitude)
\* pair is the row's complete input pair unchanged, or the complete centroid
\* pair of the union of its matched districts, or both are absent; it never
\* combines the longitude of one with the latitude of the other, also when
\* the input row has only one of the two values.  (An input pair that is
\* passed through unchanged counts as the input pair, whatever it holds.)
C29_NoMixedPair ==
    pc = "done" =>
        \A i \in 1..Len(out_df) :
            \/ /\ out_df[i].longitude = csv_rows[i].longitude
               /\ out_df[i].latitude = csv_rows[i].latitude
            \/ /\ MatchedFeatures(i) # {}
               /\ out_df[i].longitude = CentroidOf(i, 1)
               /\ out_df[i].latitude = CentroidOf(i, 2)
            \/ /\ out_df[i].longitude = {}
               /\ out_df[i].latitude = {}

\* What holds of the code: each column is filled on its own, so a row with
\* a complete input pair or with neither value satisfies C29, and a row with
\* one value keeps it and takes the other from the centroid when a district
\* matched.
C29_ColumnsFilledSeparately ==
    pc = "done" =>
        \A i \in 1..Len(out_df) :
            /\ out_df[i].longitude
                  = IF csv_rows[i].longitude # {} THEN csv_rows[i].longitude
                    ELSE CentroidOf(i, 1)
            /\ out_df[i].latitude
                  = IF csv_rows[i].latitude # {} THEN csv_rows[i].latitude
                    ELSE CentroidOf(i, 2)

(***************************************************************************)
(* Claims about a record on its way to the unified table (checked under    *)
(* SpecPipeline).                                                          *)
(***************************************************************************)
\* C30: every record produced by the BLM record builder that is fed to the
\* unifier appears in the unified table as a BLM row whose start_date and
\* end_date equal the record's comment_start_date and comment_end_date: a
\* window found by the extractor is not lost between scraping and the
\* unified output.
C30_RecordWindowInUnifiedTable ==
    pc = "done" =>
        \E i \in 1..Len(all_rows) :
            /\ all_rows[i].source = "BLM"
            /\ all_rows[i].start_date = CsvDate(record.comment_start_date)
            /\ all_rows[i].end_date = CsvDate(record.comment_end_date)

\* What holds of the code: the file of the records has no coordinate
\* columns, so the unified table of that file is empty.
C30_RecordDropped ==
    pc = "done" => (all_rows = <<>> /\ geojson.features = <<>>)

====
